---------------------------- MODULE Spec2Model ----------------------------
(***************************************************************************)
(* ZeroDevSigner.sendTransaction and the account API it drives             *)
(* (packages/sdk/src/ZeroDevSigner.ts, GnosisAccountAPI.ts).               *)
(*                                                                         *)
(* Every call of sendTransaction is a run r; an action is the code between *)
(* two awaits of the async function.  The bundler and the chain are the    *)
(* environment.  Text (the bundler's error messages) is a sequence of      *)
(* tokens; the word FailedOp is one token.                                 *)
(***************************************************************************)
EXTENDS Integers, Sequences, FiniteSets, TLC

(* ------------------------------ bounds -------------------------------- *)
\* longest <reason> field of a FailedOp message, in tokens
MaxReasonLen == 3
\* the account's sequence number on chain is followed up to this value
MaxNonce == 2
\* the longest batch of calls
MaxCalls == 2
\* the longest list of assets
MaxAssets == 2
\* the account's balances are followed up to this value
MaxBalance == 1

(* ------------------------------- text --------------------------------- *)
\* an absent field of a request (undefined or null)
None == "None"

\* an undefined text; no text holds this token
NoText == <<"<undefined>">>

\* `${x}`: an undefined value reads "undefined" in a template literal
Show(x) == IF x = NoText THEN <<"undefined">> ELSE x

\* String.prototype.includes for the word FailedOp
includes(s, tok) == \E i \in 1..Len(s) : s[i] = tok

\* position of the last tok in s, 0 when there is none
LastIndexOf(s, tok) ==
  IF \E i \in 1..Len(s) : s[i] = tok
  THEN CHOOSE i \in 1..Len(s) : s[i] = tok /\ \A j \in (i+1)..Len(s) : s[j] # tok
  ELSE 0

\* position of the first tok in s, 0 when there is none
IndexOf(s, tok) ==
  IF \E i \in 1..Len(s) : s[i] = tok
  THEN CHOOSE i \in 1..Len(s) : s[i] = tok /\ \A j \in 1..(i-1) : s[j] # tok
  ELSE 0

\* leftmost place where the two tokens FailedOp ( stand, 0 when nowhere
FailedOpAt(s) ==
  IF \E i \in 1..(Len(s)-1) : s[i] = "FailedOp" /\ s[i+1] = "("
  THEN CHOOSE i \in 1..(Len(s)-1) :
         /\ s[i] = "FailedOp" /\ s[i+1] = "("
         /\ \A j \in 1..(i-1) : ~(s[j] = "FailedOp" /\ s[j+1] = "(")
  ELSE 0

\* a lazy group (.*?) would end at the first closing parenthesis
matchFailedOpLazy(s) ==
  LET i == FailedOpAt(s)
      rest == IF i = 0 THEN <<>> ELSE SubSeq(s, i+2, Len(s))
      k == IndexOf(rest, ")")
  IN  IF i = 0 \/ k = 0 THEN NoText ELSE SubSeq(rest, 1, k-1)

\* failedOpMessage.match(/FailedOp\((.*)\)/): group 1, NoText without a match.
\* The group is greedy: it runs to the last closing parenthesis.
matchFailedOp(s) ==
  LET i == FailedOpAt(s)
      j == LastIndexOf(s, ")")
  IN  IF i = 0 \/ j < i + 2 THEN NoText ELSE SubSeq(s, i+2, j-1)

\* String.prototype.split(','): the fields between the commas
RECURSIVE split(_)
split(s) ==
  LET k == IndexOf(s, ",")
  IN  IF k = 0 THEN <<s>>
      ELSE <<SubSeq(s, 1, k-1)>> \o split(SubSeq(s, k+1, Len(s)))

\* an array element, undefined past the end
At(arr, n) == IF n + 1 <= Len(arr) THEN arr[n+1] ELSE NoText

(* --------------------------- bundler errors --------------------------- *)
\* An error thrown by HttpRpcClient.sendUserOpToBundler.  Its body is absent,
\* a text that is not JSON, or a JSON text, given by what it parses to: null,
\* an object without error, an error without message, or an error with one.
NoBody          == [kind |-> "absent"]
TextBody        == [kind |-> "text"]
JsonBody(shape) == [kind |-> "json", shape |-> shape, message |-> NoText]
JsonMessage(m)  == [kind |-> "json", shape |-> "message", message |-> m]

RpcError(body) == [type |-> "RpcError", body |-> body, stack |-> "bundlerStack"]

NoError == [type |-> "none"]

\* errorIn.body != null
hasBody(errorIn) == errorIn.body.kind # "absent"

\* JSON.parse throws a SyntaxError on a text that is not JSON
ParseThrows(body) == body.kind = "text"

\* errorBody?.error?.message
MessageOf(body) == IF body.shape = "message" THEN body.message ELSE NoText

BatchPrefix == <<"The bundler has failed to include UserOperation in a batch: ">>

\* the Error built at line 117 from failedOpMessage and paymasterInfo
BundlerError(failedOpMessage, paymasterInfo, stack) ==
  [type |-> "Error",
   message |-> BatchPrefix \o Show(failedOpMessage) \o <<" ">> \o paymasterInfo \o <<")">>,
   stack |-> stack]

\* `(paymaster address: ${split[1]})`
PaymasterInfo(pm) == <<"(paymaster address: ">> \o Show(pm) \o <<")">>

SyntaxError == [type |-> "SyntaxError"]

\* a slip in the field numbers: the reason taken from field 1
translateFieldsShifted(message) ==
  LET matched == IF includes(message, "FailedOp") THEN matchFailedOp(message) ELSE NoText
  IN  IF matched = NoText THEN <<message, <<>> >>
      ELSE <<At(split(matched), 1), PaymasterInfo(At(split(matched), 2))>>

\* lines 106-116: <<failedOpMessage, paymasterInfo>> from errorBody.error.message
translateFields(message) ==
  LET matched == IF includes(message, "FailedOp") THEN matchFailedOp(message) ELSE NoText
  IN  IF matched = NoText THEN <<message, <<>> >>
      ELSE <<At(split(matched), 2), PaymasterInfo(At(split(matched), 1))>>

\* ZeroDevSigner.unwrapError, and the throw of line 97: what the catch block
\* of sendTransaction raises for errorIn.  JSON.parse throwing inside
\* unwrapError leaves the catch block with the SyntaxError.
unwrapError(errorIn) ==
  IF hasBody(errorIn)
  THEN IF ParseThrows(errorIn.body) THEN SyntaxError
       ELSE LET message == MessageOf(errorIn.body)
                fields == IF message = NoText THEN <<NoText, <<>> >>
                          ELSE translateFields(message)
            IN  BundlerError(fields[1], fields[2], errorIn.stack)
  ELSE errorIn

(* ----------------------------- the state ------------------------------ *)
\* the sendTransaction calls that may be in flight together
Runs == {"r1", "r2"}

\* the calls of a caller who awaits each call before the next one
OneAtATime == {"r1"}

VARIABLES
  pc,               \* pc[r]: where run r of sendTransaction stands
  tx,               \* tx[r]: the request, then the populated transaction
  userOperation,    \* userOperation[r]: the signed operation (line 72)
  handle,           \* handle[r]: transactionResponse (line 81)
  hook,             \* hook[r]: what transactionStarted was called with
  err,              \* err[r]: the error the run rejected with
  log,              \* log[r]: the calls run r has made, in order
  resp,             \* resp[r]: the bundler's answer to the submit, in flight
  opStatus,         \* opStatus[r]: the operation at the bundler / on chain
  address,          \* ZeroDevSigner.address (line 48)
  isPhantom,        \* BaseAccountAPI.isPhantom
  accountContract,  \* GnosisAccountAPI.accountContract is set (line 37)
  chainDeployed,    \* the account has code on chain
  chainNonce,       \* the nonce stored in the deployed account
  observedDeployed, \* some phantom check has answered Deployed
  lastCheck,        \* the last phantom check: who asked, and the answer
  lastNonce,        \* the last getNonce call: its answer and what it did
  params,           \* the constructor's params: owner, index, accountAddress,
                    \* factoryAddress
  factoryAddress,   \* GnosisAccountAPI.factoryAddress (line 33)
  factory,          \* GnosisAccountAPI.factory (line 38): its address once connected
  delegateMode,     \* BaseAccountAPI.delegateMode of this.smartAccountAPI
  delegateAccountAPI, \* delegateAccountAPI[r]: the copy run r works with (line 52)
  calls,            \* calls[r]: the calls of the batch run r sends
  balances,         \* what the chain holds: the account's assets
  estimate,         \* estimate[r]: what estimateGas sent and what it gave back
  signed,           \* the last signature handed out by signMessage
  hashed,           \* the last operation signed by signUserOperation
  getter,           \* getter[c]: where the getAddress call of caller c stands
  updating          \* where the update(confirm) call stands

vars == <<pc, tx, userOperation, handle, hook, err, log, resp, opStatus,
          address, isPhantom, accountContract, chainDeployed, chainNonce,
          observedDeployed, lastCheck, lastNonce, params, factoryAddress,
          factory, delegateMode, delegateAccountAPI, calls, balances,
          estimate, signed, hashed, getter, updating>>

runVars == <<pc, tx, userOperation, handle, hook, err, log, resp, opStatus>>
apiVars == <<isPhantom, accountContract, observedDeployed, lastCheck, lastNonce>>
chainVars == <<chainDeployed, chainNonce>>
gnosisVars == <<params, factoryAddress, factory, delegateMode>>
batchVars == <<delegateAccountAPI, calls, balances, estimate>>
signVars == <<signed, hashed, getter, updating>>

AccountAddress == "0xAccount"
Recipient == "0xRecipient"

\* the factory a caller configures (part_000 line 334)
Factory == "0xFactory"

\* the owners of line 63 and the factory of line 65
MigratedOwners ==
  { "0x0d68adA5ba372a508Cd76f46000292028E64B1f8",
    "0xd19B624010d6bd0223658059Ac892514e41676B7",
    "0x7AeCA2dFf97B9692E17a1fa64E42d527179624d3",
    "0x3cE0223eDBfA89eCDf9Dc85abB3d1b7361B24354" }

MigrationFactory == "0x5d7a58eFbC95f5b3Da446D9496D73a6E9D57b0a4"

\* String.prototype.toLowerCase on the addresses at hand
toLowerCase(a) ==
  CASE a = "0x0d68adA5ba372a508Cd76f46000292028E64B1f8" -> "0x0d68ada5ba372a508cd76f46000292028e64b1f8"
    [] a = "0xd19B624010d6bd0223658059Ac892514e41676B7" -> "0xd19b624010d6bd0223658059ac892514e41676b7"
    [] a = "0x7AeCA2dFf97B9692E17a1fa64E42d527179624d3" -> "0x7aeca2dff97b9692e17a1fa64e42d527179624d3"
    [] a = "0x3cE0223eDBfA89eCDf9Dc85abB3d1b7361B24354" -> "0x3ce0223edbfa89ecdf9dc85abb3d1b7361b24354"
    [] a = "0xD19B624010D6BD0223658059AC892514E41676B7" -> "0xd19b624010d6bd0223658059ac892514e41676b7"
    [] OTHER -> a

\* the owners an account API is built for: one of no list, and one of the
\* list of line 63 whose address is written in capitals
Owners == {"0x1111111111111111111111111111111111111111",
           "0xD19B624010D6BD0223658059AC892514E41676B7"}

\* the params of the constructor (lines 40-45): index is params.index ?? 0,
\* accountAddress is given for an account that is known (part_000 line 418)
Params ==
  [owner : Owners, index : {"0"}, accountAddress : {None, AccountAddress}]

\* bytes are a sequence of parts; '0x' holds none
hexConcat(a, b) == a \o b

\* factory.interface.encodeFunctionData('createAccount', [ownerAddress, index])
encodeCreateAccount(ownerAddress, idx) == <<"createAccount", ownerAddress, idx>>

NoTx == [to |-> None, data |-> NoText, value |-> None, gasLimit |-> None,
         maxFeePerGas |-> None, maxPriorityFeePerGas |-> None,
         gasPrice |-> None, from |-> None]

NoCall == [target |-> None, value |-> None, data |-> NoText, operation |-> None]

NoOp == [sender |-> None, nonce |-> 0, initCode |-> NoText, callData |-> NoCall,
         paymasterAndData |-> None, signature |-> None]

\* getUserOpHash: the operation without its signature
HashOf(op) == [sender |-> op.sender, nonce |-> op.nonce, initCode |-> op.initCode,
               callData |-> op.callData, paymasterAndData |-> op.paymasterAndData]

NoHandle == [hash |-> HashOf(NoOp), state |-> "None"]
NoHook == [fired |-> FALSE, hash |-> HashOf(NoOp), from |-> None, to |-> None,
           value |-> None, sponsored |-> FALSE]
NoResp == [type |-> "none"]
Accepted == [type |-> "ok"]

\* a JavaScript value is truthy unless it is absent or the number 0
Truthy(v) == v # None /\ v # "0"

\* the requests a caller passes: every field present or absent; a number is
\* written as its decimal text, call data as the sequence of its parts
FeeChoices ==
  { [maxFeePerGas |-> None, maxPriorityFeePerGas |-> None, gasPrice |-> None],
    [maxFeePerGas |-> "1",  maxPriorityFeePerGas |-> "1",  gasPrice |-> None] }

Requests ==
  { [to |-> t, data |-> d, value |-> v, gasLimit |-> g,
     maxFeePerGas |-> f.maxFeePerGas,
     maxPriorityFeePerGas |-> f.maxPriorityFeePerGas,
     gasPrice |-> f.gasPrice, from |-> None] :
      t \in {None, Recipient}, d \in {NoText, <<"0xd">>}, v \in {None, "0", "1"},
      g \in {None, "1000000"}, f \in FeeChoices }

\* the fields of an account API object; NoAPI stands where no copy was made
NoAPI == [made |-> FALSE, delegateMode |-> FALSE, isPhantom |-> TRUE,
          accountContract |-> FALSE, factoryAddress |-> None, factory |-> None,
          signerAddress |-> None]

\* the options of execBatch and transferAllAssets (lines 206-210, 260-264)
NoOptions == [gasLimit |-> None, gasPrice |-> None, multiSendAddress |-> None]

\* what run r was asked to send as a batch, and by which call
NoBatch == [by |-> "none", calls |-> <<>>, options |-> NoOptions, to |-> None,
            assets |-> <<>>]

\* the account's native balance, its balance of the token and of the
\* ERC1155 item
FirstBalances == [native |-> 1, token |-> 1, items |-> 1]
NoSignature ==
  [by |-> "none", input |-> <<>>, phantom |-> FALSE, threw |-> FALSE,
   requested |-> FALSE, factoryAddress |-> None, initPayload |-> <<>>,
   sig |-> <<>>, result |-> <<>>]

\* a UserOperationStruct with every field of part_000 lines 339-351
NoUserOp ==
  [sender |-> None, nonce |-> "0", initCode |-> "0x", callData |-> "0x",
   callGasLimit |-> "0", verificationGasLimit |-> "0", preVerificationGas |-> "0",
   maxFeePerGas |-> "0", maxPriorityFeePerGas |-> "0", paymasterAndData |-> "0x",
   signature |-> "0x"]

\* keccak256, taken as free of collisions: the digest stands for its input
keccak256(x) == <<"keccak256", x>>

\* the entry point and the chain the account API and the provider are built
\* with (part_000 line 333)
EntryPointAddress == "0xEntryPoint"
ChainId == "31337"

NoHash ==
  [by |-> "none", op |-> NoUserOp, entryPointAddress |-> EntryPointAddress,
   chainId |-> ChainId,
   hash |-> keccak256(<<keccak256(<<>>), None, None>>),
   signature |-> [owner |-> None, message |-> keccak256(<<keccak256(<<>>), None, None>>)]]

\* a getAddress call that has not been made
\* no update(confirm) call is under way
NoUpdate == [pc |-> "Idle", available |-> FALSE, confirmCalled |-> FALSE,
             confirmed |-> FALSE, result |-> None]

NoGetter == [pc |-> "Idle", result |-> None, wrote |-> FALSE]

NoEstimate == [sent |-> FALSE, op |-> NoOp,
               gasInfo |-> [preVerificationGas |-> 0, verificationGas |-> 0,
                            callGasLimit |-> 0],
               result |-> 0]

\* the state after the constructors, for the params p, the factoryAddress
\* fAddr, an account that is deployed or not, the entry point ep and the
\* chain
StartOn(p, fAddr, deployed, ep, chain) ==
  /\ pc = [r \in Runs |-> "Idle"]
  /\ tx = [r \in Runs |-> NoTx]
  /\ userOperation = [r \in Runs |-> NoOp]
  /\ handle = [r \in Runs |-> NoHandle]
  /\ hook = [r \in Runs |-> NoHook]
  /\ err = [r \in Runs |-> NoError]
  /\ log = [r \in Runs |-> <<>>]
  /\ resp = [r \in Runs |-> NoResp]
  /\ opStatus = [r \in Runs |-> "None"]
  /\ address = None
  /\ isPhantom = TRUE
  /\ accountContract = FALSE
  /\ params = [owner |-> p.owner, index |-> p.index,
               accountAddress |-> p.accountAddress, factoryAddress |-> fAddr]
  /\ factoryAddress = fAddr
  /\ factory = None
  /\ delegateMode = FALSE
  /\ chainDeployed = deployed
  /\ delegateAccountAPI = [r \in Runs |-> NoAPI]
  /\ calls = [r \in Runs |-> NoBatch]
  /\ balances = FirstBalances
  /\ estimate = [r \in Runs |-> NoEstimate]
  /\ signed = NoSignature
  /\ hashed = [NoHash EXCEPT !.entryPointAddress = ep, !.chainId = chain]
  /\ getter = [c \in Runs |-> NoGetter]
  /\ updating = NoUpdate
  /\ chainNonce = 0
  /\ observedDeployed = FALSE
  /\ lastCheck = [by |-> "none", phantom |-> TRUE]
  /\ lastNonce = [phantom |-> TRUE, nonce |-> 0, read |-> FALSE, built |-> FALSE]

Start(p, fAddr, deployed) == StartOn(p, fAddr, deployed, EntryPointAddress, ChainId)

\* an account API as the tests build it (part_000 lines 330-335): an owner,
\* a factory, no account yet
Init ==
  Start([owner |-> "0x1111111111111111111111111111111111111111", index |-> "0",
         accountAddress |-> None], Factory, FALSE)

\* every account API a caller can build; an account whose address is given
\* may be deployed already (part_000 lines 415-420)
InitConfigured ==
  \E p \in Params, fAddr \in {None, "", Factory}, deployed \in BOOLEAN :
    /\ deployed => p.accountAddress # None
    /\ Start(p, fAddr, deployed)

(* --------------------------- the account API -------------------------- *)
\* an early return that answers Phantom for an account cached as deployed
checkAccountPhantomStale(cached, deployed) ==
  IF ~cached THEN [answer |-> TRUE, cache |-> FALSE]
  ELSE [answer |-> ~deployed, cache |-> ~deployed]

\* BaseAccountAPI.checkAccountPhantom: isPhantom is the cache; once it is
\* false it is answered without a look at the chain, else the account's code
\* decides and the cache takes the answer.
checkAccountPhantom(cached, deployed) ==
  IF ~cached THEN [answer |-> FALSE, cache |-> FALSE]
  ELSE [answer |-> ~deployed, cache |-> ~deployed]

\* a getNonce that does not short-circuit: it reads the contract's nonce always
getNonceAlwaysReads(phantom, stored) == [nonce |-> stored, read |-> TRUE]

\* GnosisAccountAPI.getNonce (lines 82-88): 0 for a phantom account, else
\* _getAccountContract() and the nonce() it stores
getNonce(phantom, stored) ==
  IF phantom THEN [nonce |-> 0, read |-> FALSE]
  ELSE [nonce |-> stored, read |-> TRUE]

NoFactoryError == [type |-> "Error", message |-> <<"no factory to get initCode">>]

\* an init code that leaves the factory's address out
getAccountInitCodeCallOnly(ownerAddress, fAddr, fac, idx) ==
  LET fAddr1 == IF \E addr \in MigratedOwners :
                     toLowerCase(addr) = toLowerCase(ownerAddress)
                THEN MigrationFactory ELSE fAddr
      ok == fac # None \/ (fAddr1 # None /\ fAddr1 # "")
      fac1 == IF fac = None /\ ok THEN fAddr1 ELSE fac
  IN  [throws |-> ~ok, factoryAddress |-> fAddr1, factory |-> fac1,
       initCode |-> IF ok THEN encodeCreateAccount(ownerAddress, idx) ELSE NoText]

\* an init code for the configured factory, whoever the owner is
getAccountInitCodeConfigured(ownerAddress, fAddr, fac, idx) ==
  LET ok == fac # None \/ (fAddr # None /\ fAddr # "")
      fac1 == IF fac = None /\ ok THEN fAddr ELSE fac
  IN  [throws |-> ~ok, factoryAddress |-> fAddr, factory |-> fac1,
       initCode |-> IF ok THEN hexConcat(<<fac1>>, encodeCreateAccount(ownerAddress, idx))
                    ELSE NoText]

\* an init code that is built whether there is a factory or not
getAccountInitCodeAnyFactory(ownerAddress, fAddr, fac, idx) ==
  LET fAddr1 == IF \E addr \in MigratedOwners :
                     toLowerCase(addr) = toLowerCase(ownerAddress)
                THEN MigrationFactory ELSE fAddr
      fac1 == IF fac = None THEN fAddr1 ELSE fac
  IN  [throws |-> FALSE, factoryAddress |-> fAddr1, factory |-> fac1,
       initCode |-> hexConcat(<<fac1>>, encodeCreateAccount(ownerAddress, idx))]

\* GnosisAccountAPI.getAccountInitCode (lines 58-80) for the fields
\* factoryAddress and factory: what it leaves in them, whether it throws
\* 'no factory to get initCode', and the init code it returns
getAccountInitCode(ownerAddress, fAddr, fac, idx) ==
  LET fAddr1 == IF \E addr \in MigratedOwners :
                     toLowerCase(addr) = toLowerCase(ownerAddress)
                THEN MigrationFactory ELSE fAddr
      ok == fac # None \/ (fAddr1 # None /\ fAddr1 # "")
      fac1 == IF fac = None /\ ok THEN fAddr1 ELSE fac
  IN  [throws |-> ~ok, factoryAddress |-> fAddr1, factory |-> fac1,
       initCode |-> IF ok THEN hexConcat(<<fac1>>, encodeCreateAccount(ownerAddress, idx))
                    ELSE NoText]

\* BaseAccountAPI.getInitCode: the account's init code while it is phantom,
\* '0x' once it is deployed
getInitCode(phantom, ownerAddress, fAddr, fac, idx) ==
  IF phantom THEN getAccountInitCode(ownerAddress, fAddr, fac, idx)
  ELSE [throws |-> FALSE, factoryAddress |-> fAddr, factory |-> fac, initCode |-> <<>>]

\* BaseAccountAPI.getAccountAddress: the address given to the constructor,
\* else the address the init code deploys to, which needs the init code
getAccountAddress(fAddr, fac) ==
  IF params.accountAddress # None
  THEN [throws |-> FALSE, factoryAddress |-> fAddr, factory |-> fac]
  ELSE LET init == getAccountInitCode(params.owner, fAddr, fac, params.index)
       IN  [throws |-> init.throws, factoryAddress |-> init.factoryAddress,
            factory |-> init.factory]

\* this.smartAccountAPI, as a record of its fields
ThisAPI == [made |-> FALSE, delegateMode |-> delegateMode, isPhantom |-> isPhantom,
            accountContract |-> accountContract, factoryAddress |-> factoryAddress,
            factory |-> factory, signerAddress |-> address]

\* the account API run r works with: the copy, when r made one
ApiOf(r) == IF delegateAccountAPI[r].made THEN delegateAccountAPI[r] ELSE ThisAPI

\* GnosisAccountAPI.encodeExecute (lines 96-109): executeAndRevert(target,
\* value, data, 0)
encodeExecute(target, value, data) ==
  [target |-> target, value |-> value, data |-> data, operation |-> "0"]

\* GnosisAccountAPI.encodeExecuteDelegate (lines 117-130): executeAndRevert(
\* target, value, data, 1)
encodeExecuteDelegate(target, value, data) ==
  [target |-> target, value |-> value, data |-> data, operation |-> "1"]

\* BaseAccountAPI.createUnsignedUserOp on the account API record api for the
\* transaction t: the call data by the API's call mode, the init code, the
\* nonce; api is the record as the build leaves it, and throws tells that
\* getAccountInitCode threw
createUnsignedUserOp(api, t) ==
  LET c == checkAccountPhantom(api.isPhantom, chainDeployed)
      init == getInitCode(c.answer, params.owner, api.factoryAddress, api.factory,
                          params.index)
      data == IF t.data = NoText THEN <<>> ELSE t.data
  IN  [throws |-> init.throws,
       api |-> [api EXCEPT !.isPhantom = c.cache, !.accountContract = TRUE,
                           !.factoryAddress = init.factoryAddress,
                           !.factory = init.factory],
       op |-> [sender |-> AccountAddress,
               nonce |-> getNonce(c.answer, chainNonce).nonce,
               initCode |-> init.initCode,
               callData |-> IF api.delegateMode
                            THEN encodeExecuteDelegate(t.to, t.value, data)
                            ELSE encodeExecute(t.to, t.value, data),
               paymasterAndData |-> "0x",
               signature |-> None]]

\* one phantom check asked by `by`, and what the asker is told
Answer == checkAccountPhantom(isPhantom, chainDeployed).answer

PhantomCheck(by) ==
  LET c == checkAccountPhantom(isPhantom, chainDeployed)
  IN  /\ isPhantom' = c.cache
      /\ lastCheck' = [by |-> by, phantom |-> c.answer]
      /\ observedDeployed' = (observedDeployed \/ ~c.answer)

\* getNonce as a step: the check, then the read when the account is deployed
NonceStep(by) ==
  LET n == getNonce(Answer, chainNonce)
  IN  /\ PhantomCheck(by)
      /\ lastNonce' = [phantom |-> Answer, nonce |-> n.nonce, read |-> n.read,
                       built |-> n.read /\ ~accountContract]

\* run r has built an operation: the build leaves the account API it works
\* with as b.api (the copy of r, else this.smartAccountAPI)
ApiStep(r, b, by) ==
  IF delegateAccountAPI[r].made
  THEN /\ delegateAccountAPI' = [delegateAccountAPI EXCEPT ![r] = b.api]
       /\ UNCHANGED <<apiVars, factoryAddress, factory>>
  ELSE /\ IF b.throws THEN PhantomCheck(by) /\ UNCHANGED lastNonce
          ELSE NonceStep(by)
       /\ accountContract' = b.api.accountContract
       /\ factoryAddress' = b.api.factoryAddress
       /\ factory' = b.api.factory
       /\ UNCHANGED delegateAccountAPI

\* a caller asks smartAccountAPI.getNonce()
callGetNonce ==
  /\ NonceStep("getNonce")
  /\ accountContract' = (accountContract \/ getNonce(Answer, chainNonce).read)
  /\ UNCHANGED <<runVars, address, chainVars, gnosisVars, batchVars, signVars>>

(* ------------------------------ signing ------------------------------- *)
\* An ABI blob is a sequence of 32-byte words: a number, an address, or a
\* part of a bytes value.
Uint(k) == [kind |-> "uint", n |-> k, part |-> <<>>]
AddressWord(a) == [kind |-> "address", n |-> 0, part |-> <<a>>]
DataWords(b) == [i \in 1..Len(b) |-> [kind |-> "data", n |-> 0, part |-> <<b[i]>>]]

\* line 181: the magic suffix, 32 bytes, one word
MagicSuffix ==
  [kind |-> "data", n |-> 0,
   part |-> <<"6492649264926492649264926492649264926492649264926492649264926492">>]

\* an encoding whose second offset forgets the first bytes value
abiEncodeOverlapping(a, b1, b2) ==
  <<AddressWord(a), Uint(3), Uint(3 + 1), Uint(Len(b1))>> \o DataWords(b1)
    \o <<Uint(Len(b2))>> \o DataWords(b2)

\* lines 176-180, coder.encode(['address', 'bytes', 'bytes'], [a, b1, b2]):
\* the address, the offsets of the two bytes values (in words), then each
\* bytes value as its length and its parts
abiEncode(a, b1, b2) ==
  <<AddressWord(a), Uint(3), Uint(3 + 1 + Len(b1)), Uint(Len(b1))>> \o DataWords(b1)
    \o <<Uint(Len(b2))>> \o DataWords(b2)

\* line 171: arrayify(hashMessage(message))
hashMessage(message) == <<"hashMessage">> \o message

\* line 172: fixSignedData(await this.originalSigner.signMessage(dataHash)),
\* the owner's signature of dataHash
OwnerSignature(ownerAddress, dataHash) == <<"signature", ownerAddress>> \o dataHash

\* BaseAccountAPI.getFactoryAddress: the factory the account is created by;
\* without one there is nothing to answer
getFactoryAddress(api) ==
  [throws |-> api.factoryAddress = None \/ api.factoryAddress = "",
   address |-> api.factoryAddress]

\* BaseAccountAPI.getFactoryAccountInitCode: the call data for the factory
getFactoryAccountInitCode(ownerAddress, idx) == encodeCreateAccount(ownerAddress, idx)

\* a signer that wraps the signature of a deployed account too
wrapAlways(phantom, fAddr, initPayload, sig) ==
  abiEncode(fAddr, initPayload, sig) \o <<MagicSuffix>>

\* lines 175-184: the signature as it is for a deployed account, and for a
\* phantom account the encoding of factory address, init payload and
\* signature, followed by the magic suffix
wrap(phantom, fAddr, initPayload, sig) ==
  IF phantom THEN abiEncode(fAddr, initPayload, sig) \o <<MagicSuffix>>
  ELSE DataWords(sig)

\* ZeroDevSigner.signMessage (lines 170-185) on the account API record api:
\* what it hands out, and what it asked the account API for
signMessageResult(api, message) ==
  LET sig == OwnerSignature(params.owner, hashMessage(message))
      c == checkAccountPhantom(api.isPhantom, chainDeployed)
      f == getFactoryAddress(api)
      initPayload == getFactoryAccountInitCode(params.owner, params.index)
  IN  IF c.answer /\ f.throws
      THEN [NoSignature EXCEPT !.input = message, !.phantom = TRUE, !.threw = TRUE,
                               !.requested = TRUE, !.sig = sig]
      ELSE [by |-> "none", input |-> message, phantom |-> c.answer, threw |-> FALSE,
            requested |-> c.answer,
            factoryAddress |-> IF c.answer THEN f.address ELSE None,
            initPayload |-> IF c.answer THEN initPayload ELSE <<>>,
            sig |-> sig,
            result |-> wrap(c.answer, f.address, initPayload, sig)]

\* TypedDataUtils.encodeDigest(typedData) (line 188)
encodeDigest(typedData) == <<"encodeDigest">> \o typedData

\* _TypedDataEncoder.getPayload(domain, types, value) (line 193)
getPayload(domain, types, value) == <<domain, types, value>>

\* a signTypedData that has the owner sign the digest and hands that out
signTypedDataUnwrapped(api, typedData) ==
  LET sig == OwnerSignature(params.owner, hashMessage(encodeDigest(typedData)))
  IN  [signMessageResult(api, encodeDigest(typedData)) EXCEPT !.result = DataWords(sig)]

\* ZeroDevSigner.signTypedData (lines 187-190)
signTypedDataResult(api, typedData) == signMessageResult(api, encodeDigest(typedData))

\* ZeroDevSigner._signTypedData (lines 192-195)
signTypedDataPayloadResult(api, domain, types, value) ==
  signTypedDataResult(api, getPayload(domain, types, value))

\* a signing call by `by` that hands out res: its phantom check is the only
\* thing it leaves behind
SignStep(by, res) ==
  /\ PhantomCheck(by)
  /\ signed' = [res EXCEPT !.by = by]
  /\ UNCHANGED <<runVars, address, chainVars, accountContract, lastNonce,
                 gnosisVars, batchVars, hashed, getter, updating>>

signMessage(message) == SignStep("signMessage", signMessageResult(ThisAPI, message))

signTypedData(typedData) ==
  SignStep("signTypedData", signTypedDataResult(ThisAPI, typedData))

_signTypedData(domain, types, value) ==
  SignStep("_signTypedData", signTypedDataPayloadResult(ThisAPI, domain, types, value))

\* a digest that leaves the nonce out
getUserOpHashWithoutNonce(op, entryPoint, chain) ==
  keccak256(<<keccak256(<<op.sender, "0", keccak256(op.initCode),
                          keccak256(op.callData), op.callGasLimit,
                          op.verificationGasLimit, op.preVerificationGas,
                          op.maxFeePerGas, op.maxPriorityFeePerGas,
                          keccak256(op.paymasterAndData)>>),
              entryPoint, chain>>)

\* BaseAccountAPI.getUserOpHash(userOp) for an account API built for the
\* entry point `entryPoint` on the chain `chain`: the digest of the packed
\* operation without its signature, of the entry point and of the chain id
getUserOpHash(op, entryPoint, chain) ==
  keccak256(<<keccak256(<<op.sender, op.nonce, keccak256(op.initCode),
                          keccak256(op.callData), op.callGasLimit,
                          op.verificationGasLimit, op.preVerificationGas,
                          op.maxFeePerGas, op.maxPriorityFeePerGas,
                          keccak256(op.paymasterAndData)>>),
              entryPoint, chain>>)

\* EntryPoint.getUserOpHash(userOp) of the entry point deployed at `self` on
\* the chain `chain` (part_000 line 353): keccak256(abi.encode(
\* userOp.hash(), address(this), block.chainid))
UserOpFields ==
  <<"sender", "nonce", "initCode", "callData", "callGasLimit",
    "verificationGasLimit", "preVerificationGas", "maxFeePerGas",
    "maxPriorityFeePerGas", "paymasterAndData">>

DynamicFields == {"initCode", "callData", "paymasterAndData"}

entryPointGetUserOpHash(op, self, chain) ==
  LET packed == [i \in 1..Len(UserOpFields) |->
                   IF UserOpFields[i] \in DynamicFields
                   THEN keccak256(op[UserOpFields[i]]) ELSE op[UserOpFields[i]]]
  IN  keccak256(<<keccak256(packed), self, chain>>)

\* ZeroDevSigner.signUserOperation (lines 201-204): the owner signs the
\* digest of the operation; GnosisAccountAPI.signUserOpHash (lines 132-134)
\* signs the same digest
signUserOperation(op) ==
  /\ LET message == getUserOpHash(op, hashed.entryPointAddress, hashed.chainId)
     IN  hashed' = [hashed EXCEPT !.by = "signUserOperation", !.op = op,
                                  !.hash = message,
                                  !.signature = [owner |-> params.owner,
                                                 message |-> message]]
  /\ UNCHANGED <<runVars, address, apiVars, chainVars, gnosisVars, batchVars, signed,
                 getter, updating>>

(* ----------------------------- getAddress ----------------------------- *)
\* ZeroDevSigner.getAddress, line 164 and the call of line 165: the caller c
\* finds the address cached and has it returned (line 167), or asks the
\* provider for it and awaits the answer
getAddressCall(c) ==
  /\ getter[c].pc = "Idle"
  /\ getter' = [getter EXCEPT ![c] =
                  IF address = None THEN [NoGetter EXCEPT !.pc = "Awaiting"]
                  ELSE [NoGetter EXCEPT !.pc = "Done", !.result = address]]
  /\ UNCHANGED <<runVars, address, apiVars, chainVars, gnosisVars, batchVars, signed,
                 hashed, updating>>

\* line 165, the assignment, and line 167: getSenderAccountAddress has
\* answered, the answer is stored and returned
getAddressResolved(c) ==
  /\ getter[c].pc = "Awaiting"
  /\ LET a == getAccountAddress(factoryAddress, factory)
     IN  /\ factoryAddress' = a.factoryAddress
         /\ factory' = a.factory
         /\ IF a.throws
            THEN /\ getter' = [getter EXCEPT ![c].pc = "Failed"]
                 /\ UNCHANGED address
            ELSE /\ address' = AccountAddress
                 /\ getter' = [getter EXCEPT ![c] =
                                 [pc |-> "Done", result |-> AccountAddress,
                                  wrote |-> TRUE]]
  /\ UNCHANGED <<runVars, apiVars, chainVars, params, delegateMode, batchVars, signed,
                 hashed, updating>>

\* the caller has its answer, and c stands for a further call
getAddressDone(c) ==
  /\ getter[c].pc \in {"Done", "Failed"}
  /\ getter' = [getter EXCEPT ![c] = NoGetter]
  /\ UNCHANGED <<runVars, address, apiVars, chainVars, gnosisVars, batchVars, signed,
                 hashed, updating>>

(* --------------------------- sendTransaction -------------------------- *)
Logged(r, events) == log' = [log EXCEPT ![r] = @ \o events]

\* lines 64-69: the fee fields of the request are set to 0
zeroFees(t) ==
  IF Truthy(t.maxFeePerGas) \/ Truthy(t.maxPriorityFeePerGas)
  THEN [t EXCEPT !.maxFeePerGas = "0", !.maxPriorityFeePerGas = "0"]
  ELSE [t EXCEPT !.gasPrice = "0"]

\* lines 59-70: a caller calls sendTransaction(request); the fees are zeroed
\* and populateTransaction is called
sendTransaction(r, request) ==
  /\ pc[r] = "Idle"
  /\ pc' = [pc EXCEPT ![r] = "Populating"]
  /\ tx' = [tx EXCEPT ![r] = zeroFees(request)]
  /\ UNCHANGED <<userOperation, handle, hook, err, log, resp, opStatus,
                 address, apiVars, chainVars, gnosisVars, batchVars, signVars>>

\* line 70, Signer.populateTransaction: from is this.getAddress() (lines
\* 163-168, the address is fetched once and kept); a request without a
\* gasLimit has its gas estimated (the comment of lines 60-63)
populateTransaction(r) ==
  /\ pc[r] = "Populating"
  /\ LET cached == ApiOf(r).signerAddress
         a == getAccountAddress(factoryAddress, factory)
     IN  /\ Logged(r, IF cached = None THEN <<"getSenderAccountAddress">> ELSE <<>>)
         /\ IF cached = None /\ a.throws
            THEN /\ pc' = [pc EXCEPT ![r] = "Failed"]
                 /\ err' = [err EXCEPT ![r] = NoFactoryError]
                 /\ UNCHANGED <<address, tx, factory, delegateAccountAPI>>
                 /\ factoryAddress' = a.factoryAddress
            ELSE /\ IF delegateAccountAPI[r].made
                    THEN /\ delegateAccountAPI' =
                              [delegateAccountAPI EXCEPT ![r].signerAddress = AccountAddress]
                         /\ UNCHANGED address
                    ELSE /\ address' = AccountAddress
                         /\ UNCHANGED delegateAccountAPI
                 /\ tx' = [tx EXCEPT ![r].from = AccountAddress]
                 /\ pc' = [pc EXCEPT ![r] =
                             IF tx[r].gasLimit = None THEN "Estimating" ELSE "Verifying"]
                 /\ factoryAddress' = IF cached = None THEN a.factoryAddress ELSE factoryAddress
                 /\ factory' = IF cached = None THEN a.factory ELSE factory
                 /\ UNCHANGED err
  /\ UNCHANGED <<userOperation, handle, hook, resp, opStatus, apiVars, chainVars,
                 params, delegateMode, calls, balances, estimate, signVars>>

EstimateGasError == [type |-> "EstimateGasError"]

\* the signature of line 140
DummySignature == "0x4046ab7d9c387d7a5ef5ca0777eded29767fd9863048946d35b3042d2f7458ff7c62ade2903503e15973a63a296313eab15b964a18d79f4b06c8c01c7028143c1c"

\* the bundler's answer to estimateUserOpGas
NoGas == [preVerificationGas |-> 0, verificationGas |-> 0, callGasLimit |-> 0]

\* a sum that leaves out the gas of the call
sumWithoutCallGas(gasInfo) == gasInfo.preVerificationGas + gasInfo.verificationGas

\* line 142: preVerificationGas + verificationGas + callGasLimit
sumOfGas(gasInfo) ==
  gasInfo.preVerificationGas + gasInfo.verificationGas + gasInfo.callGasLimit

\* ZeroDevSigner.estimateGas (lines 124-143), called by populateTransaction:
\* an unsigned operation is built and sent to the bundler for an estimate
estimateGas(r, gasInfo) ==
  /\ pc[r] = "Estimating"
  /\ LET b == createUnsignedUserOp(ApiOf(r), tx[r])
         sent == [b.op EXCEPT !.signature = DummySignature]
     IN  /\ ApiStep(r, b, "createUnsignedUserOp")
         /\ IF b.throws
            THEN /\ Logged(r, <<"createUnsignedUserOp">>)
                 /\ pc' = [pc EXCEPT ![r] = "Failed"]
                 /\ err' = [err EXCEPT ![r] = NoFactoryError]
                 /\ UNCHANGED <<tx, estimate>>
            ELSE \/ /\ Logged(r, <<"createUnsignedUserOp", "estimateUserOpGas">>)
                    /\ estimate' = [estimate EXCEPT ![r] =
                         [sent |-> TRUE, op |-> sent, gasInfo |-> gasInfo,
                          result |-> sumOfGas(gasInfo)]]
                    /\ tx' = [tx EXCEPT ![r].gasLimit = "estimated"]
                    /\ pc' = [pc EXCEPT ![r] = "Verifying"]
                    /\ UNCHANGED err
                 \/ /\ Logged(r, <<"createUnsignedUserOp", "estimateUserOpGas">>)
                    /\ estimate' = [estimate EXCEPT ![r] =
                         [sent |-> TRUE, op |-> sent, gasInfo |-> NoGas, result |-> 0]]
                    /\ pc' = [pc EXCEPT ![r] = "Failed"]
                    /\ err' = [err EXCEPT ![r] = EstimateGasError]
                    /\ UNCHANGED tx
                 \/ /\ Logged(r, <<"createUnsignedUserOp">>)
                    /\ pc' = [pc EXCEPT ![r] = "Failed"]
                    /\ err' = [err EXCEPT ![r] = EstimateGasError]
                    /\ UNCHANGED <<tx, estimate>>
  /\ UNCHANGED <<userOperation, handle, hook, resp, opStatus, address, chainVars,
                 params, delegateMode, calls, balances, signVars>>

MissingCallTarget == [type |-> "Error", message |-> <<"Missing call target">>]
MissingCallDataOrValue == [type |-> "Error", message |-> <<"Missing call data or value">>]

\* a check that lets every request through
verifyNothing(r) ==
  /\ pc[r] = "Verifying"
  /\ pc' = [pc EXCEPT ![r] = "Signing"]
  /\ UNCHANGED <<tx, userOperation, handle, hook, err, log, resp, opStatus,
                 address, apiVars, chainVars, gnosisVars, batchVars, signVars>>

\* line 71, verifyAllNecessaryFields (lines 149-157)
verifyAllNecessaryFields(r) ==
  /\ pc[r] = "Verifying"
  /\ IF tx[r].to = None
     THEN /\ pc' = [pc EXCEPT ![r] = "Failed"]
          /\ err' = [err EXCEPT ![r] = MissingCallTarget]
     ELSE IF tx[r].data = NoText /\ tx[r].value = None
     THEN /\ pc' = [pc EXCEPT ![r] = "Failed"]
          /\ err' = [err EXCEPT ![r] = MissingCallDataOrValue]
     ELSE /\ pc' = [pc EXCEPT ![r] = "Signing"]
          /\ UNCHANGED err
  /\ UNCHANGED <<tx, userOperation, handle, hook, log, resp, opStatus,
                 address, apiVars, chainVars, gnosisVars, batchVars, signVars>>

BuildError == [type |-> "BuildError"]

\* the paymaster's answer to api.signUserOp (api.ts lines 4-21): '0x' when
\* the operation is not sponsored
PaymasterAnswers == {"0x", "0xPaymasterAndData"}

\* lines 73-80, smartAccountAPI.createSignedUserOp: the operation is built
\* (nonce from getNonce, initCode while the account is phantom, the call
\* data, the paymaster's data) and signed by the owner (signUserOpHash,
\* GnosisAccountAPI lines 132-134); building may fail
createSignedUserOp(r) ==
  /\ pc[r] = "Signing"
  /\ LET b == createUnsignedUserOp(ApiOf(r), tx[r])
     IN  /\ ApiStep(r, b, "createSignedUserOp")
         /\ IF b.throws
            THEN /\ pc' = [pc EXCEPT ![r] = "Failed"]
                 /\ err' = [err EXCEPT ![r] = NoFactoryError]
                 /\ UNCHANGED userOperation
            ELSE \/ \E pm \in PaymasterAnswers :
                      /\ userOperation' = [userOperation EXCEPT ![r] =
                           [b.op EXCEPT !.paymasterAndData = pm,
                                        !.signature = "ownerSignature"]]
                      /\ pc' = [pc EXCEPT ![r] = "Constructing"]
                      /\ UNCHANGED err
                 \/ /\ pc' = [pc EXCEPT ![r] = "Failed"]
                    /\ err' = [err EXCEPT ![r] = BuildError]
                    /\ UNCHANGED userOperation
  /\ Logged(r, <<"createSignedUserOp">>)
  /\ UNCHANGED <<tx, handle, hook, resp, opStatus, address, chainVars,
                 params, delegateMode, calls, balances, estimate, signVars>>

\* line 81, zdProvider.constructUserOpTransactionResponse: the handle, with
\* the operation's hash, not yet resolved
constructUserOpTransactionResponse(r) ==
  /\ pc[r] = "Constructing"
  /\ handle' = [handle EXCEPT ![r] = [hash |-> HashOf(userOperation[r]), state |-> "Pending"]]
  /\ pc' = [pc EXCEPT ![r] = "Responded"]
  /\ Logged(r, <<"constructUserOpTransactionResponse">>)
  /\ UNCHANGED <<tx, userOperation, hook, err, resp, opStatus, address, apiVars, chainVars, gnosisVars, batchVars, signVars>>

\* a hook that reports every operation as sponsored
hookArgumentsAllSponsored(t, op, response) ==
  [fired |-> TRUE, hash |-> response.hash, from |-> t.from, to |-> t.to,
   value |-> IF Truthy(t.value) THEN t.value ELSE "0",
   sponsored |-> TRUE]

\* a hook that is called with the hash of another operation
hookArgumentsOtherHash(t, op, response) ==
  [fired |-> TRUE, hash |-> HashOf(NoOp), from |-> t.from, to |-> t.to,
   value |-> IF Truthy(t.value) THEN t.value ELSE "0",
   sponsored |-> op.paymasterAndData # "0x"]

\* lines 84-91: what transactionStarted is called with
hookArguments(t, op, response) ==
  [fired |-> TRUE, hash |-> response.hash, from |-> t.from, to |-> t.to,
   value |-> IF Truthy(t.value) THEN t.value ELSE "0",
   sponsored |-> op.paymasterAndData # "0x"]

\* lines 84-94: the hook is called, then the operation is sent to the bundler
transactionStarted(r) ==
  /\ pc[r] = "Responded"
  /\ hook' = [hook EXCEPT ![r] = hookArguments(tx[r], userOperation[r], handle[r])]
  /\ Logged(r, <<"transactionStarted", "sendUserOpToBundler">>)
  /\ pc' = [pc EXCEPT ![r] = "Submitted"]
  /\ UNCHANGED <<tx, userOperation, handle, err, resp, opStatus, address, apiVars, chainVars, gnosisVars, batchVars, signVars>>

(* ------------------------------ batches ------------------------------- *)
\* numbers as their decimal text, and back
DecimalTexts == <<"1", "2", "3", "4", "5", "6", "7", "8", "9", "10", "11", "12",
                  "13", "14", "15", "16", "17", "18", "19", "20", "21", "22",
                  "23", "24">>
Dec(n) == IF n = 0 THEN "0" ELSE DecimalTexts[n]
Num(t) == IF t = "0" THEN 0 ELSE CHOOSE n \in 1..Len(DecimalTexts) : DecimalTexts[n] = t

\* a copy that is the original itself, put into delegate mode
delegateCopyAliased(api) ==
  [original |-> [api EXCEPT !.delegateMode = TRUE],
   copy |-> [api EXCEPT !.made = TRUE, !.delegateMode = TRUE, !.signerAddress = None]]

\* a copy that is left in direct mode
delegateCopyDirect(api) ==
  [original |-> api,
   copy |-> [api EXCEPT !.made = TRUE, !.signerAddress = None]]

\* ZeroDevSigner.delegateCopy (lines 50-56) on the account API record api:
\* what becomes of the original, and the copy: Object.assign copies the
\* fields, delegateMode is set on the copy, and the copy is given to a new
\* signer, which has no address yet
delegateCopyResult(api) ==
  [original |-> api,
   copy |-> [api EXCEPT !.made = TRUE, !.delegateMode = TRUE, !.signerAddress = None]]

\* a caller makes a delegate copy of the signer and sends through it
\* (part_000 line 136)
delegateCopy(r) ==
  /\ pc[r] = "Idle" /\ ~delegateAccountAPI[r].made
  /\ LET c == delegateCopyResult(ThisAPI)
     IN  /\ delegateAccountAPI' = [delegateAccountAPI EXCEPT ![r] = c.copy]
         /\ delegateMode' = c.original.delegateMode
  /\ UNCHANGED <<runVars, address, apiVars, chainVars, params, factoryAddress, factory,
                 calls, balances, estimate, signVars>>

\* the default target of a batch (multisend.MULTISEND_ADDR)
MULTISEND_ADDR == "MULTISEND_ADDR"

\* a batch encoding that packs the calls last to first
encodeMultiSendReversed(cs) ==
  LET pack(c) == <<"0", c.to, c.value, Dec(Len(c.data))>> \o c.data
      F[n \in 0..Len(cs)] == IF n = 0 THEN <<>> ELSE pack(cs[n]) \o F[n - 1]
  IN  F[Len(cs)]

\* multisend.encodeMultiSend: per call, in order, its type, target, value,
\* the length of its data and its data
encodeMultiSend(cs) ==
  LET pack(c) == <<"0", c.to, c.value, Dec(Len(c.data))>> \o c.data
      F[n \in 0..Len(cs)] == IF n = 0 THEN <<>> ELSE F[n - 1] \o pack(cs[n])
  IN  F[Len(cs)]

\* what the MultiSend contract reads from its argument: call after call, by
\* the stated length of the data
RECURSIVE decodeMultiSend(_)
decodeMultiSend(bytes) ==
  IF Len(bytes) < 4 THEN <<>>
  ELSE LET n == Num(bytes[4])
       IN  <<[to |-> bytes[2], value |-> bytes[3], data |-> SubSeq(bytes, 5, 4 + n)]>>
             \o decodeMultiSend(SubSeq(bytes, 5 + n, Len(bytes)))

\* line 216, the call data of multiSend(bytes transactions)
encodeMultiSendCall(cs) == <<"multiSend">> \o encodeMultiSend(cs)

\* lines 211-219: the transaction the Contract hands to the delegate signer
batchTransaction(cs, options) ==
  [NoTx EXCEPT !.to = IF options.multiSendAddress # None THEN options.multiSendAddress
                      ELSE MULTISEND_ADDR,
               !.data = encodeMultiSendCall(cs),
               !.gasLimit = options.gasLimit,
               !.gasPrice = options.gasPrice]

\* ZeroDevSigner.execBatch (lines 206-220) up to the populateTransaction of
\* the delegate signer's sendTransaction, for the batch `batch`
BatchStep(r, batch) ==
  /\ pc[r] = "Idle" /\ ~delegateAccountAPI[r].made
  /\ LET c == delegateCopyResult(ThisAPI)
     IN  /\ delegateAccountAPI' = [delegateAccountAPI EXCEPT ![r] = c.copy]
         /\ delegateMode' = c.original.delegateMode
  /\ calls' = [calls EXCEPT ![r] = batch]
  /\ tx' = [tx EXCEPT ![r] = zeroFees(batchTransaction(batch.calls, batch.options))]
  /\ pc' = [pc EXCEPT ![r] = "Populating"]

execBatch(r, cs, options) ==
  /\ BatchStep(r, [NoBatch EXCEPT !.by = "execBatch", !.calls = cs, !.options = options])
  /\ UNCHANGED <<userOperation, handle, hook, err, log, resp, opStatus, address,
                 apiVars, chainVars, params, factoryAddress, factory, balances,
                 estimate, signVars>>

\* erc20.interface.encodeFunctionData('transfer', [to, amount]) (line 279)
encodeTransfer(to, amount) == <<"transfer", to, amount>>

\* the encodings of lines 286 and 293
encodeTransferFrom(from, to, tokenId) == <<"transferFrom", from, to, tokenId>>
encodeSafeTransferFrom(from, to, tokenId, amount) ==
  <<"safeTransferFrom", from, to, tokenId, amount>>

\* lines 271, 279 and 293: the balance is asked from the chain (getBalance,
\* balanceOf) when `asset.amount` is falsy
readsBalance(asset) ==
  asset.assetType \in {"ETH", "ERC20", "ERC1155"} /\ ~Truthy(asset.amount)

\* lines 266-296: the call for one asset, bal being what the chain holds
\* when getBalance / balanceOf is asked; `asset.amount ? asset.amount : ...`
\* takes the balance when the amount is absent and when it is 0
callOf(asset, to, bal) ==
  LET amountOr(b) == IF Truthy(asset.amount) THEN asset.amount ELSE Dec(b)
  IN  CASE asset.assetType = "ETH" ->
             [to |-> to, value |-> amountOr(bal.native), data |-> <<>>]
        [] asset.assetType = "ERC20" ->
             [to |-> asset.address, value |-> "0",
              data |-> encodeTransfer(to, amountOr(bal.token))]
        [] asset.assetType = "ERC721" ->
             [to |-> asset.address, value |-> "0",
              data |-> encodeTransferFrom(AccountAddress, to, asset.tokenId)]
        [] asset.assetType = "ERC1155" ->
             [to |-> asset.address, value |-> "0",
              data |-> encodeSafeTransferFrom(AccountAddress, to, asset.tokenId,
                                              amountOr(bal.items))]

\* ZeroDevSigner.transferAllAssets (lines 260-299): the signer's address is
\* fetched, every asset becomes a call, and execBatch sends them
transferAllAssets(r, to, assets, options) ==
  /\ LET a == getAccountAddress(factoryAddress, factory)
         cs == [i \in 1..Len(assets) |-> callOf(assets[i], to, balances)]
     IN  IF address = None /\ a.throws
         THEN /\ pc[r] = "Idle" /\ ~delegateAccountAPI[r].made
              /\ pc' = [pc EXCEPT ![r] = "Failed"]
              /\ err' = [err EXCEPT ![r] = NoFactoryError]
              /\ factoryAddress' = a.factoryAddress
              /\ UNCHANGED <<address, factory, tx, log, delegateAccountAPI, delegateMode, calls>>
         ELSE /\ BatchStep(r, [by |-> "transferAllAssets", calls |-> cs,
                               options |-> options, to |-> to, assets |-> assets])
              /\ address' = AccountAddress
              /\ factoryAddress' = IF address = None THEN a.factoryAddress ELSE factoryAddress
              /\ factory' = IF address = None THEN a.factory ELSE factory
              /\ Logged(r, IF address = None THEN <<"getSenderAccountAddress">> ELSE <<>>)
              /\ UNCHANGED err
  /\ UNCHANGED <<userOperation, handle, hook, resp, opStatus, apiVars, chainVars,
                 params, balances, estimate, signVars>>

\* the account receives an asset between two calls of the signer
\* (part_000 lines 92-95)
fund ==
  /\ \A r \in Runs : pc[r] = "Idle"
  /\ \E b \in {[balances EXCEPT !.native = @ + 1], [balances EXCEPT !.token = @ + 1]} :
       /\ b.native <= MaxBalance /\ b.token <= MaxBalance
       /\ balances' = b
  /\ UNCHANGED <<runVars, address, apiVars, chainVars, gnosisVars,
                 delegateAccountAPI, calls, estimate, signVars>>

\* one call of a batch on chain: a transfer needs the balance, the call
\* of part_000 line 161 reverts, any other call goes through
callSucceeds(bal, c) ==
  IF c.data = <<>> THEN Num(c.value) <= bal.native
  ELSE IF c.data[1] = "transfer" THEN Num(c.data[3]) <= bal.token
  ELSE c.data[1] # "reverting"

afterCall(bal, c) ==
  IF c.data = <<>> THEN [bal EXCEPT !.native = @ - Num(c.value)]
  ELSE IF c.data[1] = "transfer" THEN [bal EXCEPT !.token = @ - Num(c.data[3])]
  ELSE bal

\* a batch that keeps what the calls before the failing one have done
RECURSIVE executeBatchPartly(_, _)
executeBatchPartly(bal, cs) ==
  IF cs = <<>> THEN [ok |-> TRUE, bal |-> bal]
  ELSE IF ~callSucceeds(bal, Head(cs)) THEN [ok |-> FALSE, bal |-> bal]
  ELSE executeBatchPartly(afterCall(bal, Head(cs)), Tail(cs))

\* MultiSend.multiSend run by the account (executeAndRevert with operation
\* 1): the calls in order; when one fails everything is reverted
executeBatch(bal, cs) ==
  LET F[n \in 0..Len(cs)] ==
        IF n = 0 THEN [ok |-> TRUE, bal |-> bal]
        ELSE IF F[n - 1].ok /\ callSucceeds(F[n - 1].bal, cs[n])
             THEN [ok |-> TRUE, bal |-> afterCall(F[n - 1].bal, cs[n])]
             ELSE [ok |-> FALSE, bal |-> bal]
  IN  F[Len(cs)]

\* the operation is a delegate call of multiSend
IsBatch(op) ==
  /\ op.callData.operation = "1"
  /\ Len(op.callData.data) > 0
  /\ op.callData.data[1] = "multiSend"

(* ------------------------ the bundler, the chain ---------------------- *)
\* the bundler takes the operation into its pool and answers
bundlerAccepts(r) ==
  /\ pc[r] = "Submitted" /\ resp[r] = NoResp
  /\ resp' = [resp EXCEPT ![r] = Accepted]
  /\ opStatus' = [opStatus EXCEPT ![r] = "InPool"]
  /\ UNCHANGED <<pc, tx, userOperation, handle, hook, err, log, address, apiVars, chainVars, gnosisVars, batchVars, signVars>>

\* the bundler rejects the operation with error e
bundlerRejects(r, e) ==
  /\ pc[r] = "Submitted" /\ resp[r] = NoResp
  /\ resp' = [resp EXCEPT ![r] = e]
  /\ UNCHANGED <<pc, tx, userOperation, handle, hook, err, log, opStatus,
                 address, apiVars, chainVars, gnosisVars, batchVars, signVars>>

\* a client that waits for the operation to be included before it returns
submitResolvedAfterInclusion(r) ==
  /\ pc[r] = "Submitted" /\ resp[r] = Accepted
  /\ opStatus[r] \in {"Included", "Reverted"}
  /\ handle' = [handle EXCEPT ![r].state =
                  IF opStatus[r] = "Included" THEN "Included" ELSE "Rejected"]
  /\ pc' = [pc EXCEPT ![r] = "Returned"]
  /\ UNCHANGED <<tx, userOperation, hook, err, log, resp, opStatus,
                 address, apiVars, chainVars, gnosisVars, batchVars, signVars>>

\* lines 94 and 100: sendUserOpToBundler resolved, the handle is returned
submitResolved(r) ==
  /\ pc[r] = "Submitted" /\ resp[r] = Accepted
  /\ pc' = [pc EXCEPT ![r] = "Returned"]
  /\ UNCHANGED <<tx, userOperation, handle, hook, err, log, resp, opStatus,
                 address, apiVars, chainVars, gnosisVars, batchVars, signVars>>

\* a client that sends the operation again when the bundler rejects it
submitRejectedRetries(r) ==
  /\ pc[r] = "Submitted" /\ resp[r] \notin {NoResp, Accepted}
  /\ Logged(r, <<"sendUserOpToBundler">>)
  /\ resp' = [resp EXCEPT ![r] = NoResp]
  /\ UNCHANGED <<pc, tx, userOperation, handle, hook, err, opStatus,
                 address, apiVars, chainVars, gnosisVars, batchVars, signVars>>

\* lines 95-98: sendUserOpToBundler rejected, unwrapError(error) is thrown
submitRejected(r) ==
  /\ pc[r] = "Submitted" /\ resp[r] \notin {NoResp, Accepted}
  /\ err' = [err EXCEPT ![r] = unwrapError(resp[r])]
  /\ pc' = [pc EXCEPT ![r] = "Failed"]
  /\ UNCHANGED <<tx, userOperation, handle, hook, log, resp, opStatus,
                 address, apiVars, chainVars, gnosisVars, batchVars, signVars>>

\* an entry point that takes an operation whatever its nonce
includeAnyNonce(r) ==
  /\ opStatus[r] = "InPool"
  /\ chainNonce < MaxNonce
  /\ chainDeployed \/ userOperation[r].initCode # <<>>
  /\ chainDeployed' = TRUE
  /\ chainNonce' = chainNonce + 1
  /\ opStatus' = [opStatus EXCEPT ![r] = "Included"]
  /\ UNCHANGED <<pc, tx, userOperation, handle, hook, err, log, resp, address, apiVars,
                 gnosisVars, batchVars, signVars>>

\* the entry point handles an operation of the pool: its nonce is the
\* account's, the account is deployed (by the operation's initCode when it
\* was not), the nonce moves on, and the call runs or reverts
include(r) ==
  /\ opStatus[r] = "InPool"
  /\ userOperation[r].nonce = chainNonce
  /\ chainNonce < MaxNonce
  /\ chainDeployed \/ userOperation[r].initCode # <<>>
  /\ chainDeployed' = TRUE
  /\ chainNonce' = chainNonce + 1
  /\ IF IsBatch(userOperation[r])
     THEN LET x == executeBatch(balances,
                     decodeMultiSend(Tail(userOperation[r].callData.data)))
          IN  \E enoughGas \in BOOLEAN :
                /\ opStatus' = [opStatus EXCEPT ![r] =
                                  IF x.ok /\ enoughGas THEN "Included" ELSE "Reverted"]
                /\ balances' = IF enoughGas THEN x.bal ELSE balances
     ELSE /\ \E outcome \in {"Included", "Reverted"} :
               opStatus' = [opStatus EXCEPT ![r] = outcome]
          /\ UNCHANGED balances
  /\ UNCHANGED <<pc, tx, userOperation, handle, hook, err, log, resp, address, apiVars,
                 gnosisVars, delegateAccountAPI, calls, estimate, signVars>>

\* an operation of the pool whose nonce the account has used already is
\* rejected by the entry point and leaves the pool
rejectStale(r) ==
  /\ opStatus[r] = "InPool"
  /\ userOperation[r].nonce < chainNonce
  /\ opStatus' = [opStatus EXCEPT ![r] = "Rejected"]
  /\ UNCHANGED <<pc, tx, userOperation, handle, hook, err, log, resp, address, apiVars,
                 chainVars, gnosisVars, batchVars, signVars>>

\* a handle whose wait resolves for every included operation, reverted or not
waitResolvesAlways(r) ==
  /\ pc[r] = "Returned"
  /\ handle[r].state = "Pending"
  /\ opStatus[r] \in {"Included", "Reverted"}
  /\ handle' = [handle EXCEPT ![r].state = "Included"]
  /\ UNCHANGED <<pc, tx, userOperation, hook, err, log, resp, opStatus,
                 address, apiVars, chainVars, gnosisVars, batchVars, signVars>>

\* the caller awaits the handle: wait() resolves once the operation is
\* included and rejects when its execution reverted
wait(r) ==
  /\ pc[r] = "Returned"
  /\ handle[r].state = "Pending"
  /\ opStatus[r] \in {"Included", "Reverted"}
  /\ handle' = [handle EXCEPT ![r].state =
                  IF opStatus[r] = "Included" THEN "Included" ELSE "Rejected"]
  /\ UNCHANGED <<pc, tx, userOperation, hook, err, log, resp, opStatus,
                 address, apiVars, chainVars, gnosisVars, batchVars, signVars>>

\* the caller is done with a finished call and r stands for a new one
finish(r) ==
  /\ \/ pc[r] = "Failed"
     \/ pc[r] = "Returned" /\ handle[r].state # "Pending"
  /\ opStatus[r] # "InPool"
  /\ pc' = [pc EXCEPT ![r] = "Idle"]
  /\ tx' = [tx EXCEPT ![r] = NoTx]
  /\ userOperation' = [userOperation EXCEPT ![r] = NoOp]
  /\ handle' = [handle EXCEPT ![r] = NoHandle]
  /\ hook' = [hook EXCEPT ![r] = NoHook]
  /\ err' = [err EXCEPT ![r] = NoError]
  /\ log' = [log EXCEPT ![r] = <<>>]
  /\ resp' = [resp EXCEPT ![r] = NoResp]
  /\ opStatus' = [opStatus EXCEPT ![r] = "None"]
  /\ delegateAccountAPI' = [delegateAccountAPI EXCEPT ![r] = NoAPI]
  /\ calls' = [calls EXCEPT ![r] = NoBatch]
  /\ estimate' = [estimate EXCEPT ![r] = NoEstimate]
  /\ UNCHANGED <<address, apiVars, chainVars, gnosisVars, balances, signVars>>

(* ------------------------- the specifications ------------------------- *)
\* texts the bundler's errors are drawn from
Digits == {<<"0">>, <<"1">>}
Paymasters == {<<"0x0000000000000000000000000000000000000000">>, <<"0xPAYMASTER">>}
ReasonTokens == {"AA21 didn't pay prefund", ",", "(", ")"}

RECURSIVE TextsUpTo(_, _)
TextsUpTo(tokens, n) ==
  IF n = 0 THEN {<<>>}
  ELSE LET shorter == TextsUpTo(tokens, n - 1)
       IN  shorter \cup {Append(t, c) : t \in shorter, c \in tokens}

Reasons == TextsUpTo(ReasonTokens, MaxReasonLen)

FailedOpMessage(index, paymaster, reason) ==
  <<"FailedOp", "(">> \o index \o <<",">> \o paymaster \o <<",">> \o reason \o <<")">>

FailedOpMessages ==
  {FailedOpMessage(i, p, rs) : i \in Digits, p \in Paymasters, rs \in Reasons}

OtherMessages ==
  { <<"request timed out">>, <<"FailedOp">>, <<"FailedOp", "(", "0">>,
    <<"FailedOp", "(", ")">>, <<"Invalid", "(", "params", ")">> }

AllErrors ==
  {RpcError(NoBody), RpcError(TextBody)}
  \cup {RpcError(JsonBody(sh)) : sh \in {"null", "noError", "noMessage"}}
  \cup {RpcError(JsonMessage(m)) : m \in FailedOpMessages \cup OtherMessages}

ErrorSamples ==
  { RpcError(NoBody), RpcError(TextBody), RpcError(JsonBody("noError")),
    RpcError(JsonMessage(<<"request timed out">>)),
    RpcError(JsonMessage(FailedOpMessage(<<"0">>, <<"0xPAYMASTER">>,
                                         <<"AA21 didn't pay prefund">>))) }

\* messages a caller has signed
MessageSamples == {<<"hello">>}

\* answers of the bundler to estimateUserOpGas
GasSamples == {[preVerificationGas |-> 1, verificationGas |-> 2, callGasLimit |-> 3]}

Next ==
  \/ \E r \in OneAtATime, request \in Requests : sendTransaction(r, request)
  \/ \E r \in OneAtATime : populateTransaction(r)
  \/ \E r \in OneAtATime, g \in GasSamples : estimateGas(r, g)
  \/ \E r \in OneAtATime : verifyAllNecessaryFields(r)
  \/ \E r \in OneAtATime : createSignedUserOp(r)
  \/ \E r \in OneAtATime : constructUserOpTransactionResponse(r)
  \/ \E r \in OneAtATime : transactionStarted(r)
  \/ \E r \in OneAtATime : bundlerAccepts(r)
  \/ \E r \in OneAtATime, e \in ErrorSamples : bundlerRejects(r, e)
  \/ \E r \in OneAtATime : submitResolved(r)
  \/ \E r \in OneAtATime : submitRejected(r)
  \/ \E r \in OneAtATime : include(r)
  \/ \E r \in OneAtATime : wait(r)
  \/ \E r \in OneAtATime : finish(r)
  \/ callGetNonce
  \/ \E m \in MessageSamples : signMessage(m)

Spec == Init /\ [][Next]_vars

\* requests that pass verifyAllNecessaryFields, with and without a gasLimit
BuildRequests ==
  {q \in Requests : /\ q.to = Recipient /\ q.data = <<"0xd">> /\ q.value = None
                    /\ q.maxFeePerGas = None}

\* the calls of Next on every account API a caller can build
NextConfigured ==
  \/ \E r \in OneAtATime, request \in BuildRequests : sendTransaction(r, request)
  \/ \E r \in OneAtATime : populateTransaction(r)
  \/ \E r \in OneAtATime, g \in GasSamples : estimateGas(r, g)
  \/ \E r \in OneAtATime : verifyAllNecessaryFields(r)
  \/ \E r \in OneAtATime : createSignedUserOp(r)
  \/ \E r \in OneAtATime : constructUserOpTransactionResponse(r)
  \/ \E r \in OneAtATime : transactionStarted(r)
  \/ \E r \in OneAtATime : bundlerAccepts(r)
  \/ \E r \in OneAtATime, e \in ErrorSamples : bundlerRejects(r, e)
  \/ \E r \in OneAtATime : submitResolved(r)
  \/ \E r \in OneAtATime : submitRejected(r)
  \/ \E r \in OneAtATime : include(r)
  \/ \E r \in OneAtATime : wait(r)
  \/ \E r \in OneAtATime : finish(r)
  \/ callGetNonce
  \/ \E m \in MessageSamples : signMessage(m)

SpecConfigured == InitConfigured /\ [][NextConfigured]_vars

\* what callers sign
Messages == {<<"hello">>, <<"world">>}
Domains == {"domain"}
Types == {"types"}
Values == {"value", "other value"}
TypedDatas == {getPayload(d, t, v) : d \in Domains, t \in Types, v \in Values}

\* the account is deployed by an operation of another client (part_000
\* lines 365-372 hand the operation to the entry point themselves)
deployedElsewhere ==
  /\ ~chainDeployed
  /\ chainDeployed' = TRUE
  /\ UNCHANGED <<runVars, address, apiVars, chainNonce, gnosisVars, batchVars, signVars>>

\* the signing calls of a caller, for every account API
NextSign ==
  \/ \E m \in Messages : signMessage(m)
  \/ \E td \in TypedDatas : signTypedData(td)
  \/ \E d \in Domains, t \in Types, v \in Values : _signTypedData(d, t, v)
  \/ deployedElsewhere

SpecSign == InitConfigured /\ [][NextSign]_vars

\* the token of an ERC20 asset
Token == "0xToken"

\* the calls of the batches: a value transfer, a call that reverts
\* (part_000 line 161), a transfer of the token
CallSamples ==
  { [to |-> Recipient, value |-> "1", data |-> <<>>],
    [to |-> Recipient, value |-> "0", data |-> <<"reverting">>],
    [to |-> Token, value |-> "0", data |-> encodeTransfer(Recipient, "1")] }

SeqsUpTo(S, n) == UNION {[1..k -> S] : k \in 1..n}

Batches == SeqsUpTo(CallSamples, MaxCalls)

\* the options a caller gives: none, or all of them
OtherMultiSend == "0xOtherMultiSend"
OptionSamples ==
  { NoOptions,
    [gasLimit |-> "1000000", gasPrice |-> "1", multiSendAddress |-> OtherMultiSend] }

NoAsset == [assetType |-> "ETH", address |-> None, amount |-> None, tokenId |-> None]

\* the assets a caller lists: with an amount, with the amount 0, with none
AssetSamples ==
  { NoAsset,
    [NoAsset EXCEPT !.amount = "1"],
    [NoAsset EXCEPT !.assetType = "ERC20", !.address = Token],
    [NoAsset EXCEPT !.assetType = "ERC20", !.address = Token, !.amount = "0"] }

AssetLists == SeqsUpTo(AssetSamples, MaxAssets)

\* the request of the delegate call test (part_000 line 137)
DelegateTestRequest ==
  [to |-> Recipient, data |-> <<"0xd">>, value |-> None, gasLimit |-> None,
   maxFeePerGas |-> None, maxPriorityFeePerGas |-> None, gasPrice |-> None,
   from |-> None]

\* batches, sweeps and calls through a delegate copy, the account being funded
\* meanwhile
NextBatch ==
  \/ \E r \in OneAtATime : delegateCopy(r)
  \/ \E r \in OneAtATime : sendTransaction(r, DelegateTestRequest)
  \/ \E r \in OneAtATime, cs \in Batches, o \in OptionSamples : execBatch(r, cs, o)
  \/ \E r \in OneAtATime, a \in AssetLists, o \in OptionSamples :
       transferAllAssets(r, Recipient, a, o)
  \/ fund
  \/ \E r \in OneAtATime : populateTransaction(r)
  \/ \E r \in OneAtATime, g \in GasSamples : estimateGas(r, g)
  \/ \E r \in OneAtATime : verifyAllNecessaryFields(r)
  \/ \E r \in OneAtATime : createSignedUserOp(r)
  \/ \E r \in OneAtATime : constructUserOpTransactionResponse(r)
  \/ \E r \in OneAtATime : transactionStarted(r)
  \/ \E r \in OneAtATime : bundlerAccepts(r)
  \/ \E r \in OneAtATime : submitResolved(r)
  \/ \E r \in OneAtATime : include(r)
  \/ \E r \in OneAtATime : wait(r)
  \/ \E r \in OneAtATime : finish(r)

SpecBatch == Init /\ [][NextBatch]_vars

\* answers of the bundler to estimateUserOpGas, two of them with one sum
GasInfos ==
  { [preVerificationGas |-> 1, verificationGas |-> 2, callGasLimit |-> 3],
    [preVerificationGas |-> 3, verificationGas |-> 2, callGasLimit |-> 1],
    [preVerificationGas |-> 1, verificationGas |-> 1, callGasLimit |-> 1] }

\* requests with and without a gasLimit, the bundler answering the estimate
\* with every one of GasInfos
NextEstimate ==
  \/ \E r \in OneAtATime, request \in BuildRequests : sendTransaction(r, request)
  \/ \E r \in OneAtATime : populateTransaction(r)
  \/ \E r \in OneAtATime, g \in GasInfos : estimateGas(r, g)
  \/ \E r \in OneAtATime : verifyAllNecessaryFields(r)
  \/ \E r \in OneAtATime : createSignedUserOp(r)
  \/ \E r \in OneAtATime : constructUserOpTransactionResponse(r)
  \/ \E r \in OneAtATime : transactionStarted(r)
  \/ \E r \in OneAtATime : bundlerAccepts(r)
  \/ \E r \in OneAtATime : submitResolved(r)
  \/ \E r \in OneAtATime : include(r)
  \/ \E r \in OneAtATime : wait(r)
  \/ \E r \in OneAtATime : finish(r)

SpecEstimate == Init /\ [][NextEstimate]_vars

\* the operations a caller has signed: the one of part_000 lines 339-351 and
\* the ones that differ from it in some fields
TestUserOp ==
  [sender |-> "0x1111111111111111111111111111111111111111", nonce |-> "2",
   initCode |-> "0x3333", callData |-> "0x4444", callGasLimit |-> "5",
   verificationGasLimit |-> "6", preVerificationGas |-> "7",
   maxFeePerGas |-> "8", maxPriorityFeePerGas |-> "9",
   paymasterAndData |-> "0xaaaaaa", signature |-> "0xbbbb"]

OtherFields ==
  [sender |-> AccountAddress, nonce |-> "3", initCode |-> "0x",
   callData |-> "0x4445", callGasLimit |-> "6", verificationGasLimit |-> "5",
   preVerificationGas |-> "8", maxFeePerGas |-> "9", maxPriorityFeePerGas |-> "8",
   paymasterAndData |-> "0x", signature |-> "0xcccc"]

UserOps ==
  [sender : {TestUserOp.sender}, nonce : {TestUserOp.nonce, OtherFields.nonce},
   initCode : {TestUserOp.initCode, OtherFields.initCode},
   callData : {TestUserOp.callData, OtherFields.callData},
   callGasLimit : {TestUserOp.callGasLimit},
   verificationGasLimit : {TestUserOp.verificationGasLimit},
   preVerificationGas : {TestUserOp.preVerificationGas},
   maxFeePerGas : {TestUserOp.maxFeePerGas, OtherFields.maxFeePerGas},
   maxPriorityFeePerGas : {TestUserOp.maxPriorityFeePerGas},
   paymasterAndData : {TestUserOp.paymasterAndData, OtherFields.paymasterAndData},
   signature : {TestUserOp.signature, OtherFields.signature}]

EntryPoints == {EntryPointAddress, "0xOtherEntryPoint"}
ChainIds == {ChainId, "1"}

InitHash ==
  \E ep \in EntryPoints, chain \in ChainIds :
    StartOn([owner |-> "0x1111111111111111111111111111111111111111", index |-> "0",
             accountAddress |-> None], Factory, FALSE, ep, chain)

\* a caller signs operations, on every entry point and chain
NextHash == \E op \in UserOps : signUserOperation(op)

SpecHash == InitHash /\ [][NextHash]_vars

\* one caller sends through a delegate copy while another sends through the
\* signer itself (part_000 lines 133-157)
NextDelegate ==
  \/ delegateCopy("r1")
  \/ \E r \in Runs : sendTransaction(r, DelegateTestRequest)
  \/ \E r \in Runs : populateTransaction(r)
  \/ \E r \in Runs, g \in GasSamples : estimateGas(r, g)
  \/ \E r \in Runs : verifyAllNecessaryFields(r)
  \/ \E r \in Runs : createSignedUserOp(r)
  \/ \E r \in Runs : constructUserOpTransactionResponse(r)
  \/ \E r \in Runs : transactionStarted(r)
  \/ \E r \in Runs : bundlerAccepts(r)
  \/ \E r \in Runs : submitResolved(r)
  \/ \E r \in Runs : include(r)
  \/ \E r \in Runs : wait(r)
  \/ \E r \in Runs : finish(r)

SpecDelegate == Init /\ [][NextDelegate]_vars

\* the request of the test 'should fail to send before funding'
\* (part_000 line 83): recipient.something('hello', { gasLimit: 1e6 })
FundingTestRequest ==
  [to |-> Recipient, data |-> <<"0xd">>, value |-> None, gasLimit |-> "1000000",
   maxFeePerGas |-> None, maxPriorityFeePerGas |-> None, gasPrice |-> None,
   from |-> None]

\* one sendTransaction call that the bundler rejects, with every error
NextRejected ==
  \/ sendTransaction("r1", FundingTestRequest)
  \/ populateTransaction("r1")
  \/ verifyAllNecessaryFields("r1")
  \/ createSignedUserOp("r1")
  \/ constructUserOpTransactionResponse("r1")
  \/ transactionStarted("r1")
  \/ \E e \in AllErrors : bundlerRejects("r1", e)
  \/ submitRejected("r1")

SpecRejected == Init /\ [][NextRejected]_vars

\* an error of the bundler for an operation it does not take
StaleNonceError ==
  RpcError(JsonMessage(FailedOpMessage(<<"0">>, <<"0x">>, <<"AA25 invalid account nonce">>)))

\* two sendTransaction calls that are not awaited one after the other
NextConcurrent ==
  \/ \E r \in Runs : sendTransaction(r, FundingTestRequest)
  \/ \E r \in Runs : populateTransaction(r)
  \/ \E r \in Runs : verifyAllNecessaryFields(r)
  \/ \E r \in Runs : createSignedUserOp(r)
  \/ \E r \in Runs : constructUserOpTransactionResponse(r)
  \/ \E r \in Runs : transactionStarted(r)
  \/ \E r \in Runs : bundlerAccepts(r)
  \/ \E r \in Runs : bundlerRejects(r, StaleNonceError)
  \/ \E r \in Runs : submitResolved(r)
  \/ \E r \in Runs : submitRejected(r)
  \/ \E r \in Runs : include(r)
  \/ \E r \in Runs : rejectStale(r)
  \/ \E r \in Runs : wait(r)
  \/ \E r \in Runs : finish(r)

SpecConcurrent == Init /\ [][NextConcurrent]_vars

\* callers of getAddress that do not wait for one another, and a
\* sendTransaction call meanwhile
NextAddress ==
  \/ \E c \in Runs : getAddressCall(c)
  \/ \E c \in Runs : getAddressResolved(c)
  \/ \E c \in Runs : getAddressDone(c)
  \/ \E r \in OneAtATime : sendTransaction(r, FundingTestRequest)
  \/ \E r \in OneAtATime : populateTransaction(r)
  \/ \E r \in OneAtATime : verifyAllNecessaryFields(r)
  \/ \E r \in OneAtATime : createSignedUserOp(r)
  \/ \E r \in OneAtATime : finish(r)

SpecAddress == Init /\ [][NextAddress]_vars

\* the transaction that UpdateController.update sends through the signer
UpdateRequest ==
  [FundingTestRequest EXCEPT !.to = AccountAddress, !.data = <<"0xupdate">>]

\* ZeroDevSigner.update (lines 233-235): the controller is made and asked
\* whether an update is available
update ==
  /\ updating.pc = "Idle"
  /\ updating' = [NoUpdate EXCEPT !.pc = "Checking"]
  /\ UNCHANGED <<runVars, address, apiVars, chainVars, gnosisVars, batchVars,
                 signed, hashed, getter>>

\* line 235: checkUpdate has answered; when an update is available confirm
\* is called (line 236), otherwise update returns undefined
checkUpdate(available) ==
  /\ updating.pc = "Checking"
  /\ updating' = [updating EXCEPT !.available = available,
                                  !.confirmCalled = available,
                                  !.pc = IF available THEN "Confirming" ELSE "Done",
                                  !.result = IF available THEN None ELSE "undefined"]
  /\ UNCHANGED <<runVars, address, apiVars, chainVars, gnosisVars, batchVars,
                 signed, hashed, getter>>

\* an update that is sent whatever confirm resolves to
confirmIgnored(answer) ==
  /\ updating.pc = "Confirming"
  /\ updating' = [updating EXCEPT !.confirmed = answer, !.pc = "Sending"]
  /\ UNCHANGED <<runVars, address, apiVars, chainVars, gnosisVars, batchVars,
                 signed, hashed, getter>>

\* line 236: confirm has resolved; on true updateController.update() is
\* called (line 237), otherwise update returns undefined
confirm(answer) ==
  /\ updating.pc = "Confirming"
  /\ updating' = [updating EXCEPT !.confirmed = answer,
                                  !.pc = IF answer THEN "Sending" ELSE "Done",
                                  !.result = IF answer THEN None ELSE "undefined"]
  /\ UNCHANGED <<runVars, address, apiVars, chainVars, gnosisVars, batchVars,
                 signed, hashed, getter>>

\* UpdateController.update, called at line 237: the update transaction is
\* sent through the signer
updateControllerUpdate(r) ==
  /\ updating.pc = "Sending"
  /\ sendTransaction(r, UpdateRequest)

\* line 237: what updateController.update() gave is returned by update
updateReturned(r) ==
  /\ updating.pc = "Sending"
  /\ pc[r] \in {"Returned", "Failed"}
  /\ updating' = [updating EXCEPT !.pc = "Done",
                                  !.result = IF pc[r] = "Returned"
                                             THEN "transaction" ELSE "threw"]
  /\ UNCHANGED <<runVars, address, apiVars, chainVars, gnosisVars, batchVars,
                 signed, hashed, getter>>

\* the caller has the result of update, and a further call can be made
updateDone(r) ==
  /\ updating.pc = "Done"
  /\ pc[r] = "Idle"
  /\ updating' = NoUpdate
  /\ UNCHANGED <<runVars, address, apiVars, chainVars, gnosisVars, batchVars,
                 signed, hashed, getter>>

\* update(confirm) calls, one after the other
NextUpdate ==
  \/ update
  \/ \E available \in BOOLEAN : checkUpdate(available)
  \/ \E answer \in BOOLEAN : confirm(answer)
  \/ \E r \in OneAtATime : updateControllerUpdate(r)
  \/ \E r \in OneAtATime : populateTransaction(r)
  \/ \E r \in OneAtATime : verifyAllNecessaryFields(r)
  \/ \E r \in OneAtATime : createSignedUserOp(r)
  \/ \E r \in OneAtATime : constructUserOpTransactionResponse(r)
  \/ \E r \in OneAtATime : transactionStarted(r)
  \/ \E r \in OneAtATime : bundlerAccepts(r)
  \/ \E r \in OneAtATime, e \in ErrorSamples : bundlerRejects(r, e)
  \/ \E r \in OneAtATime : submitResolved(r)
  \/ \E r \in OneAtATime : submitRejected(r)
  \/ \E r \in OneAtATime : include(r)
  \/ \E r \in OneAtATime : wait(r)
  \/ \E r \in OneAtATime : updateReturned(r)
  \/ \E r \in OneAtATime : updating.pc = "Done" /\ finish(r)
  \/ \E r \in OneAtATime : updateDone(r)

SpecUpdate == Init /\ [][NextUpdate]_vars

\* requests with every combination of fee fields: absent, 0, or a fee
FeeRequests ==
  {[FundingTestRequest EXCEPT !.gasLimit = None, !.maxFeePerGas = f,
                              !.maxPriorityFeePerGas = p, !.gasPrice = g] :
     f \in {None, "0", "1"}, p \in {None, "0", "1"}, g \in {None, "0", "1"}}

NextFees ==
  \/ \E r \in OneAtATime, request \in FeeRequests : sendTransaction(r, request)
  \/ \E r \in OneAtATime : populateTransaction(r)
  \/ \E r \in OneAtATime, g \in GasSamples : estimateGas(r, g)
  \/ \E r \in OneAtATime : verifyAllNecessaryFields(r)
  \/ \E r \in OneAtATime : createSignedUserOp(r)
  \/ \E r \in OneAtATime : finish(r)

SpecFees == Init /\ [][NextFees]_vars

(* ------------------------------ the claims ---------------------------- *)
Count(s, tok) == Cardinality({i \in 1..Len(s) : s[i] = tok})

\* the request lacks `to`, or lacks both `data` and `value`
MissingFields(t) == t.to = None \/ (t.data = NoText /\ t.value = None)

\* the run's failure came from the bundler's answer to the submit
RejectedByBundler(r) == pc[r] = "Failed" /\ resp[r] # NoResp

\* C1: a sendTransaction whose request lacks `to`, or both `data` and
\* `value`, rejects with the missing-field error, and no gas estimation, no
\* operation build and no submit has happened in that run before it.
C1_MissingFieldBeforeAnyCall ==
  \A r \in Runs :
    (pc[r] = "Failed" /\ MissingFields(tx[r])) =>
      /\ err[r] \in {MissingCallTarget, MissingCallDataOrValue}
      /\ \A i \in 1..Len(log[r]) :
           log[r][i] \notin {"createUnsignedUserOp", "estimateUserOpGas",
                             "createSignedUserOp", "sendUserOpToBundler"}

\* the text of rs before its first comma
BeforeFirstComma(rs) ==
  IF \E k \in 1..Len(rs) : rs[k] = ","
  THEN SubSeq(rs, 1, (CHOOSE k \in 1..Len(rs) :
                        rs[k] = "," /\ \A j \in 1..(k-1) : rs[j] # ",") - 1)
  ELSE rs

\* C2, as claimed: for every FailedOp(index,paymaster,reason) the error that
\* sendTransaction raises carries exactly reason and exactly paymaster.
C2_ExactReasonAndPaymaster ==
  \A r \in Runs, i \in Digits, p \in Paymasters, rs \in Reasons :
    (RejectedByBundler(r) /\ resp[r] = RpcError(JsonMessage(FailedOpMessage(i, p, rs)))) =>
      err[r] = BundlerError(rs, PaymasterInfo(p), resp[r].stack)

\* C2, amended: the error carries the reason up to its first comma (the whole
\* reason when it holds no comma) and exactly the paymaster.
C2_ReasonToFirstCommaAndPaymaster ==
  \A r \in Runs, i \in Digits, p \in Paymasters, rs \in Reasons :
    (RejectedByBundler(r) /\ resp[r] = RpcError(JsonMessage(FailedOpMessage(i, p, rs)))) =>
      /\ err[r] = BundlerError(BeforeFirstComma(rs), PaymasterInfo(p), resp[r].stack)
      /\ (\A k \in 1..Len(rs) : rs[k] # ",") =>
            err[r] = BundlerError(rs, PaymasterInfo(p), resp[r].stack)

\* a rejection with the message of the test 'should fail to send before
\* funding', a reason that holds parentheses, has been translated
C2_Witness ==
  /\ RejectedByBundler("r1")
  /\ resp["r1"] = RpcError(JsonMessage(FailedOpMessage(<<"0">>,
         <<"0x0000000000000000000000000000000000000000">>,
         <<"AA21 didn't pay prefund", "(", ")">>)))
  /\ err["r1"].message =
       BatchPrefix \o <<"AA21 didn't pay prefund", "(", ")">> \o <<" ">>
       \o <<"(paymaster address: ", "0x0000000000000000000000000000000000000000", ")">>
       \o <<")">>

\* the bundler's error has no body, or a body without a FailedOp(...) message
Unmatched(e) ==
  \/ e.body.kind \in {"absent", "text"}
  \/ e.body.kind = "json" /\ e.body.shape # "message"
  \/ e.body.kind = "json" /\ e.body.shape = "message"
       /\ ~(\E k \in 1..(Len(e.body.message) - 1) :
              /\ e.body.message[k] = "FailedOp" /\ e.body.message[k+1] = "("
              /\ \E j \in (k+2)..Len(e.body.message) : e.body.message[j] = ")")

\* C3: a rejection without a body, or with a body that holds no FailedOp(...)
\* message, is raised by sendTransaction as the original error, unchanged.
C3_UnmatchedRaisedUnchanged ==
  \A r \in Runs :
    (RejectedByBundler(r) /\ Unmatched(resp[r])) => err[r] = resp[r]

\* the place of a stage in the order of sendTransaction
Rank(stage) ==
  CASE stage = "Idle" -> 0
    [] stage = "Populating" -> 1
    [] stage = "Estimating" -> 2
    [] stage = "Verifying" -> 3
    [] stage = "Signing" -> 4
    [] stage = "Constructing" -> 5
    [] stage = "Responded" -> 6
    [] stage = "Submitted" -> 7
    [] stage = "Returned" -> 8
    [] stage = "Failed" -> 8

\* C4: a run moves through its stages in the one order Idle, Populating,
\* Estimating, (validation,) Signing, Submitted and enters no stage twice;
\* signing starts only with a populated, estimated and valid transaction, the
\* submit only with a signed operation, and a run that fails before the
\* submit makes no submit and does nothing more.
C4_StagesInOrder ==
  [][\A r \in Runs :
       /\ pc'[r] # pc[r] =>
            \/ Rank(pc'[r]) > Rank(pc[r])
            \/ pc'[r] = "Idle" /\ pc[r] \in {"Failed", "Returned"}
       /\ (pc'[r] = "Signing" /\ pc[r] # "Signing") =>
            /\ pc[r] = "Verifying"
            /\ ~MissingFields(tx[r])
            /\ tx[r].from # None /\ tx[r].gasLimit # None
       /\ (pc'[r] = "Submitted" /\ pc[r] # "Submitted") =>
            /\ userOperation[r].signature # None
            /\ Count(log'[r], "createSignedUserOp") = 1
            /\ Count(log[r], "sendUserOpToBundler") = 0
       /\ (pc'[r] = "Failed" /\ pc[r] \notin {"Submitted", "Failed"}) =>
            Count(log'[r], "sendUserOpToBundler") = 0
       /\ pc[r] = "Failed" => (log'[r] = log[r] \/ pc'[r] = "Idle")
    ]_vars

\* a call without gasLimit has gone through every stage and returned
C4_Witness ==
  /\ pc["r1"] = "Returned"
  /\ log["r1"] = <<"getSenderAccountAddress", "createUnsignedUserOp",
                   "estimateUserOpGas", "createSignedUserOp",
                   "constructUserOpTransactionResponse",
                   "transactionStarted", "sendUserOpToBundler">>

\* the run has sent its operation to the bundler
ReachedSubmission(r) == Count(log[r], "sendUserOpToBundler") > 0

\* C5: in a run that reaches the submit the hook has fired once, before the
\* submit, with the hash of the handle, the sender, the recipient and the
\* value of the transaction (0 when it has none) and sponsored exactly when
\* paymasterAndData is not empty; a run that failed before the operation was
\* signed has not fired it.
C5_HookOnceBeforeSubmit ==
  \A r \in Runs :
    /\ ReachedSubmission(r) =>
         /\ Count(log[r], "transactionStarted") = 1
         /\ \A i, j \in 1..Len(log[r]) :
              (log[r][i] = "transactionStarted" /\ log[r][j] = "sendUserOpToBundler")
                => i < j
         /\ hook[r].fired
         /\ hook[r].hash = handle[r].hash
         /\ hook[r].hash = HashOf(userOperation[r])
         /\ hook[r].from = AccountAddress /\ hook[r].from = tx[r].from
         /\ hook[r].to = tx[r].to
         /\ hook[r].value = (IF tx[r].value = None THEN "0" ELSE tx[r].value)
         /\ hook[r].sponsored = (userOperation[r].paymasterAndData = "0xPaymasterAndData")
    /\ (pc[r] = "Failed" /\ userOperation[r].signature = None) =>
         /\ ~hook[r].fired
         /\ Count(log[r], "transactionStarted") = 0

\* a returned call for an operation no paymaster pays for, without value
C5_Witness ==
  /\ pc["r1"] = "Returned"
  /\ hook["r1"].fired /\ ~hook["r1"].sponsored
  /\ tx["r1"].value = None /\ hook["r1"].value = "0"
  /\ userOperation["r1"].paymasterAndData = "0x"

\* C6: sendTransaction returns the handle once the bundler has accepted the
\* submit, whatever has become of the operation: the return never waits for
\* the operation to be included, and the handle it returns is Pending.
C6_ReturnsPendingHandle ==
  /\ [](\A r \in OneAtATime :
          (pc[r] = "Submitted" /\ resp[r] = Accepted) => ENABLED submitResolved(r))
  /\ [][\A r \in Runs :
          (pc[r] = "Submitted" /\ pc'[r] = "Returned") =>
            /\ resp[r] = Accepted
            /\ handle'[r].state = "Pending"
            /\ handle'[r].hash = HashOf(userOperation[r])
       ]_vars

\* the handle is back with the caller while the operation is in the pool
C6_Witness ==
  /\ pc["r1"] = "Returned"
  /\ opStatus["r1"] = "InPool"
  /\ handle["r1"].state = "Pending"

\* C7: a run sends its operation to the bundler at most once and builds it
\* at most once; after a rejected submit the run has failed with an error
\* and has sent nothing again.
C7_SubmitAtMostOnce ==
  \A r \in Runs :
    /\ Count(log[r], "sendUserOpToBundler") <= 1
    /\ Count(log[r], "createSignedUserOp") <= 1
    /\ (resp[r] \notin {NoResp, Accepted} /\ pc[r] # "Submitted") =>
         /\ pc[r] = "Failed"
         /\ err[r] # NoError
         /\ opStatus[r] = "None"

\* a rejected submit has been surfaced
C7_Witness ==
  /\ pc["r1"] = "Failed"
  /\ resp["r1"] \in ErrorSamples
  /\ Count(log["r1"], "sendUserOpToBundler") = 1

\* C8: a handle starts Pending, moves at most once, to Included or to
\* Rejected, and then stays; the handle of an operation whose execution
\* reverted moves to Rejected, never to Included.
C8_HandleMovesOnce ==
  [][\A r \in Runs :
       pc'[r] # "Idle" =>
         /\ (handle[r].state = "None" /\ handle'[r].state # "None") =>
              handle'[r].state = "Pending"
         /\ handle[r].state = "Pending" =>
              handle'[r].state \in {"Pending", "Included", "Rejected"}
         /\ handle[r].state \in {"Included", "Rejected"} => handle'[r] = handle[r]
         /\ (handle[r].state = "Pending" /\ handle'[r].state # "Pending") =>
              handle'[r].state = (IF opStatus[r] = "Reverted" THEN "Rejected" ELSE "Included")
    ]_vars

\* the wait of an operation that reverted on chain has rejected
C8_Witness ==
  /\ opStatus["r1"] = "Reverted"
  /\ handle["r1"].state = "Rejected"

\* C9: once a phantom check has answered Deployed, the cache says Deployed
\* and the last check, by whichever caller, has answered Deployed.
C9_DeployedStays ==
  observedDeployed => (~isPhantom /\ ~lastCheck.phantom)

\* after a deployment was observed, signMessage has checked again
C9_Witness ==
  /\ observedDeployed
  /\ lastCheck.by = "signMessage"
  /\ ~lastCheck.phantom

\* the account is phantom: not cached as deployed, and without code on chain
Phantom == isPhantom /\ ~chainDeployed

\* C10: getNonce answers 0 for a phantom account without reading the
\* contract's nonce (a caller's getNonce leaves accountContract as it is);
\* for a deployed account it reads and answers the nonce stored on chain.
C10_GetNonce ==
  [][(callGetNonce \/ \E r \in Runs : createSignedUserOp(r)
                                        \/ \E g \in GasSamples : estimateGas(r, g)) =>
       IF Phantom
       THEN /\ lastNonce'.nonce = 0
            /\ ~lastNonce'.read
            /\ callGetNonce => accountContract' = accountContract
       ELSE /\ lastNonce'.read
            /\ lastNonce'.nonce = chainNonce
    ]_vars

\* a caller's getNonce has read the nonce 1 of the deployed account
C10_Witness ==
  /\ lastCheck.by = "getNonce"
  /\ ~lastNonce.phantom /\ lastNonce.read
  /\ lastNonce.nonce = 1 /\ chainNonce = 1

\* the init code of an account API whose factory field holds fac
InitCodeOf(fac) == hexConcat(<<fac>>, encodeCreateAccount(params.owner, params.index))

\* C11: an operation built while the account is phantom carries an init
\* code that is not empty and is the API's factory address followed by
\* createAccount(owner, index); an operation built for a deployed account
\* carries an empty init code.  The operation that is included first deploys
\* the account at the operation's sender, the account's address, by its init
\* code.
C11_InitCodeWhilePhantom ==
  [][\A r \in Runs :
       /\ (createSignedUserOp(r) /\ pc'[r] = "Constructing") =>
            /\ userOperation'[r].sender = AccountAddress
            /\ IF Phantom
               THEN /\ userOperation'[r].initCode # <<>>
                    /\ factory' = factoryAddress'
                    /\ userOperation'[r].initCode = InitCodeOf(factoryAddress')
               ELSE userOperation'[r].initCode = <<>>
       /\ (estimate'[r] # estimate[r] /\ estimate'[r].sent) =>
            IF Phantom
            THEN estimate'[r].op.initCode = InitCodeOf(factoryAddress')
            ELSE estimate'[r].op.initCode = <<>>
       /\ (include(r) /\ ~chainDeployed) =>
            /\ chainDeployed'
            /\ userOperation[r].initCode = InitCodeOf(factoryAddress)
            /\ userOperation[r].sender = AccountAddress /\ address = AccountAddress
    ]_vars

\* the first operation has deployed the account with its init code, and an
\* operation built after it carries none
C11_Witness ==
  /\ chainDeployed /\ chainNonce = 1
  /\ opStatus["r1"] = "None"
  /\ pc["r1"] = "Constructing"
  /\ userOperation["r1"].initCode = <<>>
  /\ userOperation["r1"].nonce = 1
  /\ factory = Factory

\* the blob ends with the magic suffix
Wrapped(blob) == Len(blob) > 0 /\ blob[Len(blob)] = MagicSuffix

\* what a verifier reads from a wrapped signature: the suffix dropped, then
\* the address and the two bytes values at the offsets the blob states
unwrap(blob) ==
  LET body == SubSeq(blob, 1, Len(blob) - 1)
      o1 == body[2].n
      o2 == body[3].n
      l1 == body[o1 + 1].n
      l2 == body[o2 + 1].n
  IN  [factoryAddress |-> body[1].part[1],
       initPayload |-> SubSeq(body, o1 + 2, o1 + 1 + l1),
       sig |-> SubSeq(body, o2 + 2, o2 + 1 + l2)]

\* C12: a signature handed out by signMessage for a phantom account ends
\* with the magic suffix, the same for every owner, factory and message, and
\* unwrapping it gives back the owner's signature of the message, the
\* factory address and the init payload createAccount(owner, index).
C12_WrappedRoundTrip ==
  (signed.by = "signMessage" /\ signed.phantom /\ ~signed.threw) =>
    /\ Wrapped(signed.result)
    /\ signed.sig = OwnerSignature(params.owner, hashMessage(signed.input))
    /\ signed.factoryAddress = factoryAddress
    /\ signed.initPayload = encodeCreateAccount(params.owner, params.index)
    /\ unwrap(signed.result) =
         [factoryAddress |-> signed.factoryAddress,
          initPayload |-> DataWords(signed.initPayload),
          sig |-> DataWords(signed.sig)]

\* a wrapped signature of 'hello' for an account of the configured factory
C12_Witness ==
  /\ signed.by = "signMessage" /\ signed.phantom /\ ~signed.threw
  /\ signed.input = <<"hello">>
  /\ signed.factoryAddress = Factory
  /\ Len(signed.result) = 3 + 1 + 3 + 1 + 4 + 1

\* C13: for a deployed account signMessage hands out the owner's signature
\* as it is: no factory address, no init payload and no suffix is added,
\* and neither the factory address nor the init payload is asked for.
C13_DeployedUnchanged ==
  (signed.by = "signMessage" /\ ~signed.phantom) =>
    /\ ~signed.threw
    /\ signed.result = DataWords(OwnerSignature(params.owner, hashMessage(signed.input)))
    /\ ~Wrapped(signed.result)
    /\ ~signed.requested
    /\ signed.factoryAddress = None /\ signed.initPayload = <<>>

\* the account was deployed and signMessage has handed out the signature
C13_Witness ==
  /\ signed.by = "signMessage" /\ ~signed.phantom
  /\ chainDeployed /\ observedDeployed
  /\ signed.result = DataWords(signed.sig)
  /\ Len(signed.result) = 4

\* C14: signTypedData(d) hands out what signMessage hands out for the digest
\* of d in the same state, _signTypedData(domain, types, value) what
\* signTypedData hands out for the payload, and whichever of the three hands
\* out a signature, it is wrapped exactly when the account has not been
\* observed deployed.
C14_EverySignatureWrapped ==
  [][/\ \A td \in TypedDatas :
          signTypedData(td) =>
            signed' = [signMessageResult(ThisAPI, encodeDigest(td))
                         EXCEPT !.by = "signTypedData"]
     /\ \A d \in Domains, t \in Types, v \in Values :
          _signTypedData(d, t, v) =>
            signed' = [signMessageResult(ThisAPI, encodeDigest(getPayload(d, t, v)))
                         EXCEPT !.by = "_signTypedData"]
     /\ (signed' # signed /\ ~signed'.threw) =>
          /\ signed'.by \in {"signMessage", "signTypedData", "_signTypedData"}
          /\ Wrapped(signed'.result) <=> ~observedDeployed'
    ]_vars

\* _signTypedData has handed out a wrapped signature for a phantom account
C14_Witness ==
  /\ signed.by = "_signTypedData" /\ signed.phantom /\ ~signed.threw
  /\ Wrapped(signed.result)
  /\ signed.input = encodeDigest(<<"domain", "types", "other value">>)

\* the fields of the account API that delegateCopy copies as they are
CopiedFields == {"isPhantom", "accountContract", "factoryAddress", "factory"}

\* C15: delegateCopy leaves the signer and its account API as they were and
\* makes a copy whose account API is in delegate mode and has every other
\* field of the original; the original's call mode is direct at all times,
\* and whichever operation is built, it has the direct call wrapping when it
\* is sent through the signer itself and the delegated one through a copy.
C15_DelegateCopyLeavesOriginal ==
  [][/\ ~delegateMode /\ ~delegateMode'
     /\ \A r \in Runs :
          (~delegateAccountAPI[r].made /\ delegateAccountAPI'[r].made) =>
            /\ <<address, apiVars, gnosisVars>>' = <<address, apiVars, gnosisVars>>
            /\ delegateAccountAPI'[r].delegateMode
            /\ \A f \in CopiedFields : delegateAccountAPI'[r][f] = ThisAPI[f]
     /\ \A r \in Runs :
          userOperation'[r] # NoOp =>
            userOperation'[r].callData.operation =
              IF delegateAccountAPI'[r].made THEN "1" ELSE "0"]_vars

\* an operation sent through the copy has been included, and one built
\* after that through the signer itself has the direct wrapping
C15_Witness ==
  /\ delegateAccountAPI["r1"].made /\ opStatus["r1"] = "Included"
  /\ userOperation["r1"].callData.operation = "1"
  /\ userOperation["r1"].nonce = 0
  /\ ~delegateAccountAPI["r2"].made
  /\ userOperation["r2"] # NoOp
  /\ userOperation["r2"].nonce = 1
  /\ userOperation["r2"].callData.operation = "0"
  /\ ~delegateMode

\* run r is an execBatch, called as such or by transferAllAssets, whose
\* operation has been built
BatchBuilt(r) == calls[r].by # "none" /\ userOperation[r] # NoOp

\* C16: the operation of every execBatch is built by a delegate copy: it
\* calls multiSend on the address of the options, or on the default one when
\* the options name none, with the delegated-call flag, and the signer the
\* batch was asked of stays in direct mode.
C16_BatchThroughDelegateCopy ==
  /\ ~delegateMode
  /\ \A r \in Runs :
       BatchBuilt(r) =>
         /\ delegateAccountAPI[r].made /\ delegateAccountAPI[r].delegateMode
         /\ userOperation[r].callData.operation = "1"
         /\ userOperation[r].callData.operation # "0"
         /\ userOperation[r].callData.target =
              IF calls[r].options.multiSendAddress # None
              THEN calls[r].options.multiSendAddress ELSE MULTISEND_ADDR
         /\ userOperation[r].callData.data[1] = "multiSend"

\* a batch for the multi-send address of the options is with the bundler
C16_Witness ==
  \E r \in Runs :
    /\ BatchBuilt(r) /\ calls[r].by = "execBatch" /\ opStatus[r] = "InPool"
    /\ calls[r].options.multiSendAddress = OtherMultiSend
    /\ userOperation[r].callData.target = OtherMultiSend
    /\ userOperation[r].callData.operation = "1"

\* the transactions argument of the multiSend call that run r submits
PayloadOf(r) == Tail(userOperation[r].callData.data)

\* C17: whichever calls a batch was asked with, reading the payload of the
\* operation that execBatch submits call by call gives the same calls, with
\* their target, value and data, in the order they were given.
C17_BatchRoundTrip ==
  \A r \in Runs :
    BatchBuilt(r) =>
      /\ calls[r].calls # <<>>
      /\ decodeMultiSend(PayloadOf(r)) = calls[r].calls

\* a batch of two different calls, the second with data, has been built and
\* its payload reads back as the two calls in their order
C17_Witness ==
  \E r \in Runs :
    /\ BatchBuilt(r) /\ calls[r].by = "execBatch"
    /\ Len(calls[r].calls) = 2
    /\ calls[r].calls[1] # calls[r].calls[2]
    /\ calls[r].calls[2].data # <<>>
    /\ decodeMultiSend(PayloadOf(r))[1] = calls[r].calls[1]
    /\ decodeMultiSend(PayloadOf(r))[2] = calls[r].calls[2]

\* the balances after the calls cs, each taken as going through
RECURSIVE AfterCalls(_, _)
AfterCalls(bal, cs) ==
  IF cs = <<>> THEN bal ELSE AfterCalls(afterCall(bal, Head(cs)), Tail(cs))

\* some call of cs fails when the calls are made in order from bal
SomeCallFails(bal, cs) ==
  \E n \in 1..Len(cs) : ~callSucceeds(AfterCalls(bal, SubSeq(cs, 1, n - 1)), cs[n])

\* C18: when the operation of a batch is executed and some inner call
\* fails, the operation is reported reverted and the balances are what they
\* were before, whatever the calls before the failing one have done; a batch
\* reported included has had every one of its calls made.
C18_AllOrNothing ==
  [][\A r \in Runs :
       (BatchBuilt(r) /\ opStatus[r] = "InPool" /\ opStatus'[r] # "InPool") =>
         /\ SomeCallFails(balances, calls[r].calls) =>
              opStatus'[r] = "Reverted"
         /\ opStatus'[r] = "Reverted" => balances' = balances
         /\ opStatus'[r] = "Included" =>
              balances' = AfterCalls(balances, calls[r].calls)]_vars

\* a batch whose first call would have moved a balance and whose second
\* call fails has been reverted
C18_Witness ==
  \E r \in Runs :
    /\ BatchBuilt(r) /\ opStatus[r] = "Reverted"
    /\ Len(calls[r].calls) = 2
    /\ callSucceeds(balances, calls[r].calls[1])
    /\ afterCall(balances, calls[r].calls[1]) # balances
    /\ ~callSucceeds(afterCall(balances, calls[r].calls[1]), calls[r].calls[2])

\* the call that stands for the asset in a sweep to `to`, bal being the
\* balances on chain when the sweep is asked: the stated amount, and the
\* balance only when no amount is stated
ExpectedCall(asset, to, bal) ==
  IF asset.assetType = "ETH"
  THEN [to |-> to,
        value |-> IF asset.amount # None THEN asset.amount ELSE Dec(bal.native),
        data |-> <<>>]
  ELSE [to |-> asset.address, value |-> "0",
        data |-> encodeTransfer(to, IF asset.amount # None THEN asset.amount
                                    ELSE Dec(bal.token))]

\* C19: transferAllAssets(to, assets) hands one batch to execBatch that has
\* one call per listed asset, in the order of the list: a value transfer to
\* `to` with empty data for the native asset, a call of the token's
\* transfer(to, amount) for a fungible token, the amount being the stated
\* one, or the balance on chain at the time of this call when none is stated.
C19_OneCallPerAsset ==
  [][\A r \in Runs :
       (calls[r].by = "none" /\ calls'[r].by = "transferAllAssets") =>
         /\ Len(calls'[r].calls) = Len(calls'[r].assets)
         /\ \A i \in 1..Len(calls'[r].assets) :
              calls'[r].calls[i] =
                ExpectedCall(calls'[r].assets[i], calls'[r].to, balances)
         /\ decodeMultiSend(Tail(tx'[r].data)) = calls'[r].calls]_vars

\* the number of bytes of a hex string
ByteLength(hex) == (Len(hex) - 2) \div 2

\* the length of an owner's signature in bytes
SignatureBytes == 65

\* run r has asked the bundler for an estimate
EstimateSent(r) == estimate[r].sent

\* estimateGas has sent the operation of the request of run r as it is
\* built unsigned, with the dummy signature of 65 bytes, never with an empty
\* signature or the owner's
DummySigned(r) ==
  /\ estimate[r].op.signature = DummySignature
  /\ ByteLength(estimate[r].op.signature) = SignatureBytes
  /\ estimate[r].op.signature \notin {None, "0x", "ownerSignature"}
  /\ estimate[r].op.sender = AccountAddress
  /\ estimate[r].op.callData.target = tx[r].to

\* C20 as stated: estimateGas sends the unsigned operation with the same
\* 65-byte dummy signature for every request, and gives back the three gas
\* components individually together with their sum: what it gives back
\* tells the components of the bundler's answer apart.
C20_ComponentsAndSum ==
  \A r \in Runs :
    (EstimateSent(r) /\ pc[r] # "Failed") =>
      /\ DummySigned(r)
      /\ estimate[r].result = sumOfGas(estimate[r].gasInfo)
      /\ \A g \in GasInfos :
           sumOfGas(g) = estimate[r].result => g = estimate[r].gasInfo

\* C20: estimateGas sends the unsigned operation with the same 65-byte dummy
\* signature for every request, never with an empty or real signature, and
\* gives back one number, the sum of the pre-verification gas, the
\* verification gas and the call gas of the bundler's answer.
C20_DummySignatureAndSum ==
  \A r \in Runs :
    EstimateSent(r) =>
      /\ DummySigned(r)
      /\ pc[r] # "Failed" =>
           estimate[r].result =
             estimate[r].gasInfo.preVerificationGas
               + estimate[r].gasInfo.verificationGas
               + estimate[r].gasInfo.callGasLimit

\* the bundler has answered an estimate with components that another answer
\* of the same sum has in another order
C20_Witness ==
  \E r \in Runs :
    /\ EstimateSent(r) /\ pc[r] = "Verifying"
    /\ estimate[r].op.signature = DummySignature
    /\ estimate[r].gasInfo.callGasLimit = 3
    /\ estimate[r].result = 6
    /\ \E g \in GasInfos : g # estimate[r].gasInfo /\ sumOfGas(g) = 6

\* the operation op with another value in the field f
With(op, f) ==
  [op EXCEPT ![f] = IF @ = TestUserOp[f] THEN OtherFields[f] ELSE TestUserOp[f]]

\* C21: the digest signed for a user operation is the same for two operations
\* that differ in their signature only, and another one as soon as any other
\* field, the entry point or the chain id differs; it is what the entry point
\* at that address on that chain gives for the operation.
C21_DigestScope ==
  hashed.by = "signUserOperation" =>
    LET op == hashed.op
        ep == hashed.entryPointAddress
        chain == hashed.chainId
    IN  /\ hashed.signature.message = hashed.hash
        /\ \A sig \in {TestUserOp.signature, OtherFields.signature} :
             getUserOpHash([op EXCEPT !.signature = sig], ep, chain) = hashed.hash
        /\ \A i \in 1..Len(UserOpFields) :
             getUserOpHash(With(op, UserOpFields[i]), ep, chain) # hashed.hash
        /\ \A ep2 \in EntryPoints \ {ep} : getUserOpHash(op, ep2, chain) # hashed.hash
        /\ \A chain2 \in ChainIds \ {chain} : getUserOpHash(op, ep, chain2) # hashed.hash
        /\ hashed.hash = entryPointGetUserOpHash(op, ep, chain)

\* the operation of the test has been signed with another signature in it
C21_Witness ==
  /\ hashed.by = "signUserOperation"
  /\ hashed.op = [TestUserOp EXCEPT !.signature = OtherFields.signature]
  /\ hashed.hash = getUserOpHash(TestUserOp, EntryPointAddress, ChainId)
  /\ hashed.signature.owner = params.owner

\* the entry point has handled the operation of run r
Handled(status) == status \in {"Included", "Reverted"}

\* the runs q and r have operations of one sender with one nonce
SameNonce(q, r) ==
  /\ q # r
  /\ userOperation[q] # NoOp /\ userOperation[r] # NoOp
  /\ userOperation[q].sender = userOperation[r].sender
  /\ userOperation[q].nonce = userOperation[r].nonce

\* C22: calls of sendTransaction are not held back for one another: every
\* operation built for an account that is not deployed has nonce 0, whatever
\* other call is under way; of two operations of one sender with one nonce
\* at most one is handled by the entry point, and an operation is handled
\* only while its nonce is the account's, never after a later one.
C22_NoSerialization ==
  [][/\ \A r \in Runs :
          (userOperation'[r] # NoOp /\ userOperation'[r].initCode # <<>>) =>
            userOperation'[r].nonce = 0
     /\ \A q, r \in Runs :
          SameNonce(q, r) => ~(Handled(opStatus[q]) /\ Handled(opStatus[r]))
     /\ \A r \in Runs :
          (~Handled(opStatus[r]) /\ Handled(opStatus'[r])) =>
            /\ userOperation[r].nonce = chainNonce
            /\ chainNonce' = chainNonce + 1
            /\ \A q \in Runs : SameNonce(q, r) => ~Handled(opStatus'[q])]_vars

\* two calls have built an operation with nonce 0 for the phantom account
\* and both have submitted it; one was included and the other one rejected
C22_Witness ==
  /\ userOperation["r1"].nonce = 0 /\ userOperation["r2"].nonce = 0
  /\ userOperation["r1"].initCode # <<>> /\ userOperation["r2"].initCode # <<>>
  /\ hook["r1"].fired /\ hook["r2"].fired
  /\ resp["r1"] = Accepted /\ resp["r2"] = Accepted
  /\ opStatus["r1"] = "Included" /\ opStatus["r2"] = "Rejected"

\* C23: the cached address of the signer is written at most once, into the
\* empty cache, whatever calls are under way at once; once written it is
\* neither cleared nor changed, and so is the cached account contract; every
\* getAddress call returns the one address.
C23_AddressWrittenOnce ==
  [][/\ address # None => address' = address
     /\ accountContract => accountContract'
     /\ \A c \in Runs :
          (~getter[c].wrote /\ getter'[c].wrote) => address = None
     /\ \A c \in Runs :
          getter'[c].pc = "Done" => getter'[c].result = AccountAddress]_vars

\* no factory was given to the constructor
NoFactoryConfigured == params.factoryAddress = None \/ params.factoryAddress = ""

\* the owner is one of the owners of line 63
Migrated == \E addr \in MigratedOwners : toLowerCase(addr) = toLowerCase(params.owner)

\* run r takes the step that builds an operation, for the estimate or to
\* sign it
BuildStep(r) == pc[r] \in {"Estimating", "Signing"} /\ pc'[r] # pc[r]

\* what holds of every path that needs the init payload, `fails` telling
\* for which account APIs it fails for a phantom account
InitPayloadPaths(fails) ==
  /\ \A r \in Runs :
       BuildStep(r) =>
         /\ err'[r] = NoFactoryError <=>
              (fails /\ checkAccountPhantom(isPhantom, chainDeployed).answer)
         /\ (NoFactoryConfigured /\ chainDeployed /\ params.accountAddress # None) =>
              /\ err'[r] # NoFactoryError
              /\ factory' = factory /\ factoryAddress' = factoryAddress
              /\ pc'[r] = "Constructing" => userOperation'[r].initCode = <<>>
  /\ (signed' # signed /\ ~Migrated) =>
       (signed'.threw <=> (fails /\ signed'.phantom))

\* C24 as stated: building the init payload fails with 'no factory to get
\* initCode' exactly when no factory was configured and the account is not
\* known to be deployed: operation building and signMessage fail then, and
\* for a deployed account whose address was given an operation is built
\* without the init payload being asked for.
C24_NoFactoryFailsWhilePhantom ==
  [][InitPayloadPaths(NoFactoryConfigured)]_vars

\* C24: the same, the owners of line 63 apart, for whom the init payload is
\* built with the factory of line 65 when no factory was configured.
C24_NoFactoryNotListed ==
  [][InitPayloadPaths(NoFactoryConfigured /\ ~Migrated)]_vars

\* without a factory, an operation for a phantom account has failed with
\* 'no factory to get initCode'
C24_Witness ==
  \E r \in Runs :
    /\ NoFactoryConfigured /\ ~Migrated /\ ~chainDeployed
    /\ params.accountAddress # None
    /\ pc[r] = "Failed" /\ err[r] = NoFactoryError
    /\ Count(log[r], "createSignedUserOp") = 1

\* the init codes that the operations of run r carry, the empty ones apart
InitCodesOf(r) ==
  {op.initCode : op \in {op \in {userOperation[r], estimate[r].op} :
                            op # NoOp /\ op.initCode # <<>>}}

\* every init code in the operations built so far is the one for the
\* factory fac, the owner and the index of the constructor's params
InitPayloadIs(fac) ==
  \A r \in Runs :
    \A code \in InitCodesOf(r) :
      code = hexConcat(<<fac>>, encodeCreateAccount(params.owner, params.index))

\* C25 as stated: the init payload depends on the owner, the factory and the
\* index only: whichever calls came before, every init code built by an
\* account API is the same one, and it is built with the factory that was
\* configured.
C25_ConfiguredFactory == InitPayloadIs(params.factoryAddress)

\* C25: the same, with the factory of line 65 in place of the configured
\* one for the owners of line 63.
C25_InitPayloadOfParams ==
  InitPayloadIs(IF Migrated THEN MigrationFactory ELSE params.factoryAddress)

\* an account API of a listed owner with a configured factory has built the
\* init code twice, for the estimate and for the signed operation, both
\* times with the factory of line 65
C25_Witness ==
  \E r \in Runs :
    /\ Migrated /\ params.factoryAddress = Factory
    /\ estimate[r].sent /\ userOperation[r] # NoOp
    /\ userOperation[r].initCode # <<>>
    /\ userOperation[r].initCode = estimate[r].op.initCode
    /\ userOperation[r].initCode[1] = MigrationFactory

\* the fee v is absent from the request, or 0
NoFee(v) == v = None \/ v = "0"

\* C26: once sendTransaction has zeroed the fees, every fee field that the
\* request carries, maxFeePerGas, maxPriorityFeePerGas and gasPrice, is 0,
\* whichever of them the caller gave, so that no estimate is asked for a
\* request with a fee.
C26_EveryFeeZero ==
  \A r \in Runs :
    pc[r] # "Idle" =>
      /\ NoFee(tx[r].maxFeePerGas)
      /\ NoFee(tx[r].maxPriorityFeePerGas)
      /\ NoFee(tx[r].gasPrice)

\* the amount that the call built for an asset moves
AmountSent(asset, call) ==
  CASE asset.assetType = "ETH" -> call.value
    [] asset.assetType = "ERC20" -> call.data[3]
    [] asset.assetType = "ERC1155" -> call.data[5]
    [] OTHER -> None

\* C27: in transferAllAssets an asset that states an amount, 0 included, is
\* transferred with that very amount and no balance is read for it; a
\* balance is read only for an asset that states no amount.
C27_StatedAmountNoRead ==
  [][\A r \in Runs :
       (calls[r].by = "none" /\ calls'[r].by = "transferAllAssets") =>
         \A i \in 1..Len(calls'[r].assets) :
           LET asset == calls'[r].assets[i]
           IN  /\ (asset.amount # None /\ asset.assetType # "ERC721") =>
                    /\ AmountSent(asset, calls'[r].calls[i]) = asset.amount
                    /\ ~readsBalance(asset)
               /\ readsBalance(asset) => asset.amount = None]_vars

\* the call of run r has fired transactionStarted
HookFired(r) == hook[r].fired

\* sendTransaction of run r has thrown what the bundler answered, translated
ThrewRejection(r) ==
  /\ pc[r] = "Failed"
  /\ resp[r] \notin {NoResp, Accepted}
  /\ err[r] = unwrapError(resp[r])

\* C28 as stated: a call that has fired transactionStarted returns the
\* handle of the hash the hook was given, and never rejects after the hook.
C28_HookThenHandle ==
  \A r \in Runs :
    HookFired(r) =>
      /\ hook[r].hash = handle[r].hash
      /\ pc[r] \in {"Submitted", "Returned"}

\* C28: a call that has fired transactionStarted is sending its operation,
\* has returned the handle of the hash the hook was given, or has thrown
\* the bundler's rejection of the operation, translated: the hook is
\* called before the operation is sent.
C28_HookThenHandleOrRejection ==
  \A r \in Runs :
    HookFired(r) =>
      /\ hook[r].hash = handle[r].hash
      /\ \/ pc[r] \in {"Submitted", "Returned"}
         \/ ThrewRejection(r)

C28_Witness ==
  \E r \in Runs :
    /\ HookFired(r) /\ ThrewRejection(r)
    /\ hook[r].hash = HashOf(userOperation[r])
    /\ userOperation[r] # NoOp

\* a transaction has been built or sent for run r
TransactionBuilt(r) ==
  \/ pc[r] # "Idle"
  \/ tx[r] # NoTx
  \/ userOperation[r] # NoOp
  \/ opStatus[r] # "None"

\* C29: update(confirm) sends the update transaction only when an update is
\* available and confirm has then resolved to true: confirm is not called
\* when no update is available, and when none is available or confirm
\* resolves to false no transaction is built or sent and update returns
\* undefined.
C29_UpdateOnlyWhenConfirmed ==
  /\ updating.confirmCalled => updating.available
  /\ updating.confirmed => updating.confirmCalled
  /\ \A r \in Runs :
       TransactionBuilt(r) => updating.available /\ updating.confirmed
  /\ updating.result = "transaction" => updating.available /\ updating.confirmed
  /\ (updating.pc = "Done" /\ ~(updating.available /\ updating.confirmed)) =>
       /\ updating.result = "undefined"
       /\ \A r \in Runs : ~TransactionBuilt(r)

C29_Witness ==
  /\ updating.pc = "Done"
  /\ updating.available /\ updating.confirmCalled /\ ~updating.confirmed
  /\ updating.result = "undefined"
  /\ chainNonce > 0

=============================================================================
